---- MODULE Spec2Model ----
(***************************************************************************)
(* A model of tlparse's vLLM artifact accumulator (src/vllm/parsers.rs,    *)
(* src/vllm/types.rs), of the multi-rank orchestration of the command line *)
(* (src/cli.rs, handle_all_ranks) and of its static file server            *)
(* (src/cli.rs, serve_directory).                                          *)
(*                                                                         *)
(* The three subsystems share no state, so each has a specification of its *)
(* own (SpecVllm, SpecRanks, SpecServe) over the module's variables; a     *)
(* specification leaves the variables of the other two at their initial    *)
(* values.                                                                 *)
(*                                                                         *)
(* Strings the code takes apart (file names, urls, json payloads) are      *)
(* sequences of tokens or records of tagged values, so that parsing,       *)
(* decoding and formatting are computed and not assumed.                   *)
(***************************************************************************)
EXTENDS Integers, Sequences, FiniteSets, TLC

VARIABLES
    \* VllmState (src/vllm/parsers.rs:15-21)
    config,                  \* Option<VllmCompilationConfig>
    piecewise_graph_file,    \* Option<String>
    subgraphs,               \* Vec<VllmSubgraphInfo>
    pre_subgraph_artifacts,  \* Vec<ArtifactInfo>
    has_vllm_artifacts,      \* bool
    \* what the accumulator's callers hold, and the history of the run
    lastOp,                  \* the operation that ran last
    lastGroups,              \* what the last build_compile_range_groups returned
    buildCalls,              \* consecutive build_compile_range_groups calls so far (capped at 2)
    adds,                    \* history: every add_artifact, with the number of units at that moment
    pushed,                  \* history: every decoded compile-start record, in arrival order
    cfgHistory,              \* history: every decoded config payload, in arrival order
    nrecords                 \* records and artifacts seen so far

vllmVars == <<config, piecewise_graph_file, subgraphs, pre_subgraph_artifacts,
              has_vllm_artifacts, lastOp, lastGroups, buildCalls, adds, pushed,
              cfgHistory, nrecords>>

runState == <<config, piecewise_graph_file, subgraphs, pre_subgraph_artifacts,
              has_vllm_artifacts>>

VARIABLES
    \* handle_all_ranks (src/cli.rs:203-277)
    dirEntries,    \* the entries of the input directory
    inputIsDir,    \* whether the input path is a directory
    overwrite,     \* --overwrite
    disk,          \* the output root: [root, stale, sub, landing]
    pc,            \* "start", "processing", "done" (Ok) or "failed" (Err)
    err,           \* why handle_all_ranks failed
    listing,       \* the order in which read_dir returned the entries
    rank_logs,     \* Vec<(PathBuf, u32)>, in discovery order
    sorted_ranks,  \* Vec<String>, the rank labels of the landing context
    todo,          \* what the for loop has still to process
    attempts       \* history: every handle_one_rank call and how it ended

rankVars == <<dirEntries, inputIsDir, overwrite, disk, pc, err, listing, rank_logs,
              sorted_ranks, todo, attempts>>

VARIABLES
    \* serve_directory (src/cli.rs:291-362)
    fs,          \* the file system: the node at each path
    srv,         \* "idle", "listening", "failed"
    dir,         \* the canonical served root
    last,        \* the request handled last, its response, what its path resolved to and
                 \* what a GET of its url is answered at that moment
    accepted,    \* history: the url answered 200 most recently, if any
    seenEscape,  \* history: the responses to requests that resolved outside the root
    seenAbsent,  \* history: the responses to requests whose path did not exist
    portArg,     \* the port asked for on the command line, if any
    bindable,    \* the ports that can be bound when the server is started
    bound        \* the port the server listens on, if it does

srvVars == <<fs, srv, dir, last, accepted, seenEscape, seenAbsent,
             portArg, bindable, bound>>

VARIABLES
    \* the dispatch of the records of one log to the vllm parsers
    record,      \* the record dispatched last
    invoked,     \* the parsers whose parse ran on it, in the order they ran
    prevState,   \* history: the VllmState before that record
    emitted      \* history: every file emitted so far, with its line and its record

dispVars == <<record, invoked, prevState, emitted>>

VARIABLES
    \* generate_vllm_summary (src/vllm/parsers.rs:261-287)
    summary      \* the context handed to the template and what was rendered
                 \* from it, None before the summary is generated

reportVars == <<summary>>

VARIABLES
    \* the loop over server.incoming_requests() (src/cli.rs:307-359)
    incoming,    \* the requests that arrived and were not taken yet, oldest first
    request,     \* the request the body of the loop is working on, if any
    sent,        \* history: every request.respond so far, with the request's number
    arrived      \* the number of requests that arrived so far

loopVars == <<incoming, request, sent, arrived>>

(* What an operation of one subsystem leaves alone. *)
notVllm == <<rankVars, srvVars, dispVars, reportVars, loopVars>>

notRanks == <<vllmVars, srvVars, dispVars, reportVars, loopVars>>

notServe == <<vllmVars, rankVars, dispVars, reportVars, loopVars>>

notDispatch == <<rankVars, srvVars, reportVars, loopVars>>

notLoop == <<vllmVars, rankVars, srvVars, dispVars, reportVars>>

-----------------------------------------------------------------------------
(* Option<T>: None is the empty sequence, Some(x) the one-element sequence. *)

None == <<>>

Some(x) == <<x>>

(* The longest log the accumulator is run on. *)
MaxRecords == 4

-----------------------------------------------------------------------------
(* JSON payloads.  A payload is [json |-> is it a JSON object, obj |-> the  *)
(* object], the object a function from keys to tagged values                *)
(* [t |-> "str" | "int" | "bool" | "null", v |-> value].                    *)

JStr(s) == [t |-> "str", v |-> s]

JInt(n) == [t |-> "int", v |-> n]

JBool(b) == [t |-> "bool", v |-> b]

JObject(o) == [json |-> TRUE, obj |-> o]

NotJson == [json |-> FALSE, obj |-> <<>>]

HasKey(p, k) == k \in DOMAIN p.obj

(* serde's view of an Option<T> field: absent or null is None, a value of   *)
(* type t is Some, anything else is a decode error.                         *)
OptField(p, k, t) ==
    IF ~HasKey(p, k) \/ p.obj[k].t = "null" THEN [ok |-> TRUE, val |-> None]
    ELSE IF p.obj[k].t = t THEN [ok |-> TRUE, val |-> Some(p.obj[k].v)]
    ELSE [ok |-> FALSE, val |-> None]

(* A required field of type t. *)
ReqFieldOk(p, k, t) == HasKey(p, k) /\ p.obj[k].t = t

CfgStrFields == {"model", "prefix", "mode", "backend", "custom_ops", "splitting_ops",
                 "cudagraph_mode", "compile_sizes", "compile_ranges_split_points",
                 "inductor_passes", "enabled_passes", "dynamic_shapes_type"}

CfgBoolFields == {"use_inductor_graph_partition", "dynamic_shapes_evaluate_guards"}

CfgFields == CfgStrFields \cup CfgBoolFields

CfgFieldType(f) == IF f \in CfgStrFields THEN "str" ELSE "bool"

(* serde_json::from_str::<VllmCompilationConfig>: every field is optional,  *)
(* unknown keys are ignored, a key of the wrong type fails the decode.      *)
DecodeConfigOk(p) ==
    p.json /\ \A f \in CfgFields : OptField(p, f, CfgFieldType(f)).ok

DecodeConfig(p) == [f \in CfgFields |-> OptField(p, f, CfgFieldType(f)).val]

I32Max == 2147483647

I32Min == -I32Max - 1

(* serde_json::from_str::<VllmSubgraphInfo>: five required fields (two of   *)
(* them renamed), submod_name optional, artifacts skipped.                  *)
DecodeSubgraphOk(p) ==
    /\ p.json
    /\ ReqFieldOk(p, "piecewise_index", "int")
    /\ p.obj["piecewise_index"].v >= I32Min
    /\ p.obj["piecewise_index"].v <= I32Max
    /\ OptField(p, "submod_name", "str").ok
    /\ ReqFieldOk(p, "compile_range_start", "int")
    /\ ReqFieldOk(p, "compile_range_end", "int")
    /\ ReqFieldOk(p, "is_single_size", "bool")
    /\ ReqFieldOk(p, "is_cudagraph_capture_size", "bool")

DecodeSubgraphNoSkip(p) ==
    [index               |-> p.obj["piecewise_index"].v,
     submod_name         |-> OptField(p, "submod_name", "str").val,
     compile_range_start |-> p.obj["compile_range_start"].v,
     compile_range_end   |-> p.obj["compile_range_end"].v,
     is_single_size      |-> p.obj["is_single_size"].v,
     is_cudagraph_size   |-> p.obj["is_cudagraph_capture_size"].v,
     artifacts           |-> IF HasKey(p, "artifacts") THEN p.obj["artifacts"].v ELSE <<>>]

DecodeSubgraph(p) ==
    [index               |-> p.obj["piecewise_index"].v,
     submod_name         |-> OptField(p, "submod_name", "str").val,
     compile_range_start |-> p.obj["compile_range_start"].v,
     compile_range_end   |-> p.obj["compile_range_end"].v,
     is_single_size      |-> p.obj["is_single_size"].v,
     is_cudagraph_size   |-> p.obj["is_cudagraph_capture_size"].v,
     artifacts           |-> <<>>]

-----------------------------------------------------------------------------
(* The inputs of the accumulator.                                           *)

ConfigPayloads ==
    { JObject([model |-> JStr("m1"), backend |-> JStr("inductor")]),
      JObject([model |-> JStr("m2"), use_inductor_graph_partition |-> JBool(TRUE)]),
      JObject([model |-> JInt(7)]),
      NotJson }

UnitObj(i, s, e, single) ==
    [piecewise_index |-> JInt(i), compile_range_start |-> JInt(s),
     compile_range_end |-> JInt(e), is_single_size |-> JBool(single),
     is_cudagraph_capture_size |-> JBool(single)]

SubgraphPayloads ==
    { JObject(UnitObj(1, 128, 128, TRUE)),
      JObject(UnitObj(0, 0, 64, FALSE)),
      JObject([piecewise_index |-> JInt(2), compile_range_start |-> JInt(128),
               compile_range_end |-> JInt(256), is_single_size |-> JBool(TRUE),
               is_cudagraph_capture_size |-> JBool(FALSE),
               submod_name |-> JStr("submod_2"),
               artifacts |-> [t |-> "list", v |-> <<"stale">>]]),
      JObject([piecewise_index |-> JInt(3), compile_range_start |-> JInt(0),
               is_single_size |-> JBool(FALSE),
               is_cudagraph_capture_size |-> JBool(FALSE)]) }

(* An output file: its directory, the tokens of its stem and its extension. *)
(* A stem that begins with a recognised marker has the marker as its first  *)
(* token.                                                                   *)
OutFile(d, stem, ext) == [dir |-> d, stem |-> stem, ext |-> ext]

ArtifactFiles ==
    { OutFile("-_0_0_0", <<"vllm_piecewise_split_graph", "_1">>, "txt"),
      OutFile("-_0_0_0", <<"dynamo_output_graph", "_0">>, "txt"),
      OutFile("-_0_0_0", <<"vllm_subgraph_", "0_3">>, "txt"),
      OutFile("-_1_0_0", <<"vllm_piecewise_split_graph", "_4">>, "txt"),
      OutFile("-_0_0_0", <<"compilation_metrics", "_2">>, "html") }

-----------------------------------------------------------------------------
(* VllmState::add_artifact                                                  *)

(* filename.to_string_lossy(): the whole path. *)
Url(f) == <<f.dir, "/">> \o f.stem \o <<".", f.ext>>

(* filename.file_stem(): the last component without its extension. *)
FileStem(f) == f.stem

(* name.starts_with(marker), the marker one token. *)
StartsWithMarker(name, marker) == Len(name) >= 1 /\ name[1] = marker

MkArtifact(f, suffix) == [name |-> FileStem(f), url |-> Url(f), suffix |-> suffix]

TrackSplitGraphFirst(cur, art) ==
    IF cur = None /\ StartsWithMarker(art.name, "vllm_piecewise_split_graph")
    THEN Some(art.url) ELSE cur

(* The canonical split-graph link after add_artifact. *)
TrackSplitGraph(cur, art) ==
    IF StartsWithMarker(art.name, "vllm_piecewise_split_graph") THEN Some(art.url) ELSE cur

AttachFirst(units, bucket, art) ==
    IF Len(units) > 0
    THEN [units  |-> [units EXCEPT ![1].artifacts = Append(@, art)],
          bucket |-> bucket]
    ELSE [units |-> units, bucket |-> Append(bucket, art)]

(* The unit list and the pre-subgraph bucket after add_artifact: the        *)
(* artifact goes to the last unit, or to the bucket when there is none.     *)
Attach(units, bucket, art) ==
    IF Len(units) > 0
    THEN [units  |-> [units EXCEPT ![Len(units)].artifacts = Append(@, art)],
          bucket |-> bucket]
    ELSE [units |-> units, bucket |-> Append(bucket, art)]

-----------------------------------------------------------------------------
(* VllmCompilationConfigParser::parse and VllmPiecewiseCompileParser::parse *)

StoreConfigMerge(cur, c) ==
    IF cur = None THEN Some(c)
    ELSE Some([f \in CfgFields |-> IF c[f] = None THEN cur[1][f] ELSE c[f]])

(* *self.state.config.borrow_mut() = Some(config) *)
StoreConfig(cur, c) == Some(c)

RECURSIVE InsertByIndex(_, _)
InsertByIndex(units, u) ==
    IF units = <<>> THEN <<u>>
    ELSE IF u.index < Head(units).index THEN <<u>> \o units
    ELSE <<Head(units)>> \o InsertByIndex(Tail(units), u)

(* self.state.subgraphs.borrow_mut().push(subgraph) *)
PushUnit(units, u) == Append(units, u)

-----------------------------------------------------------------------------
(* VllmSubgraphInfo::size_or_range, display_submod_name and                 *)
(* VllmState::build_compile_range_groups                                    *)

(* format!("size {}", start) and format!("range [{}, {}]", start, end): the *)
(* text is kept as its format and its arguments, which determine it.        *)
size_or_range(u) ==
    IF u.is_single_size THEN <<"size", u.compile_range_start>>
    ELSE <<"range", u.compile_range_start, u.compile_range_end>>

(* submod_name, or format!("subgraph_{}", index). *)
display_submod_name(u) ==
    IF u.submod_name # None THEN [text |-> u.submod_name[1], num |-> <<>>]
    ELSE [text |-> "subgraph_", num |-> <<u.index>>]

SubgraphWithArtifacts(u) ==
    [submod_name    |-> display_submod_name(u),
     artifacts      |-> u.artifacts,
     artifact_count |-> Len(u.artifacts)]

EntryPushAdjacent(groups, k, m) ==
    IF Len(groups) > 0 /\ groups[Len(groups)].key = k
    THEN [groups EXCEPT ![Len(groups)].submods = Append(@, m)]
    ELSE Append(groups, [key |-> k, submods |-> <<m>>])

(* IndexMap::entry(k).or_default().push(m): the map is the sequence of its  *)
(* entries in insertion order.                                              *)
EntryPush(groups, k, m) ==
    IF \E i \in 1..Len(groups) : groups[i].key = k
    THEN LET i == CHOOSE j \in 1..Len(groups) : groups[j].key = k
         IN  [groups EXCEPT ![i].submods = Append(@, m)]
    ELSE Append(groups, [key |-> k, submods |-> <<m>>])

RECURSIVE GroupFold(_, _)
GroupFold(units, groups) ==
    IF units = <<>> THEN groups
    ELSE GroupFold(Tail(units),
                   EntryPush(groups, size_or_range(Head(units)),
                             SubgraphWithArtifacts(Head(units))))

GroupsOf(units) ==
    LET m == GroupFold(units, <<>>)
    IN  [i \in 1..Len(m) |->
            [size_or_range |-> m[i].key,
             submod_count  |-> Len(m[i].submods),
             submods       |-> m[i].submods]]

BuildGroupsDraining(units) == [result |-> GroupsOf(units), units |-> <<>>]

(* build_compile_range_groups(&self): what it returns, and the unit list it *)
(* leaves behind (it only borrows the list, and clones what it returns).    *)
build_compile_range_groups(units) == [result |-> GroupsOf(units), units |-> units]

-----------------------------------------------------------------------------
(* The accumulator's operations.                                            *)

InitVllm ==
    /\ config = None
    /\ piecewise_graph_file = None
    /\ subgraphs = <<>>
    /\ pre_subgraph_artifacts = <<>>
    /\ has_vllm_artifacts = FALSE
    /\ lastOp = "new"
    /\ lastGroups = <<>>
    /\ buildCalls = 0
    /\ adds = <<>>
    /\ pushed = <<>>
    /\ cfgHistory = <<>>
    /\ nrecords = 0

(* A vllm_compilation_config record reaches VllmCompilationConfigParser. *)
ParseConfig(p) ==
    /\ nrecords < MaxRecords
    /\ nrecords' = nrecords + 1
    /\ IF DecodeConfigOk(p)
       THEN /\ config' = StoreConfig(config, DecodeConfig(p))
            /\ has_vllm_artifacts' = TRUE
            /\ cfgHistory' = Append(cfgHistory, p)
       ELSE UNCHANGED <<config, has_vllm_artifacts, cfgHistory>>
    /\ lastOp' = "ParseConfig"
    /\ buildCalls' = 0
    /\ UNCHANGED <<piecewise_graph_file, subgraphs, pre_subgraph_artifacts,
                   lastGroups, adds, pushed>>
    /\ UNCHANGED notVllm

(* A vllm_piecewise_compile_start record reaches VllmPiecewiseCompileParser. *)
ParseCompileStart(p) ==
    /\ nrecords < MaxRecords
    /\ nrecords' = nrecords + 1
    /\ has_vllm_artifacts' = TRUE
    /\ IF DecodeSubgraphOk(p)
       THEN /\ subgraphs' = PushUnit(subgraphs, DecodeSubgraph(p))
            /\ pushed' = Append(pushed, p)
       ELSE UNCHANGED <<subgraphs, pushed>>
    /\ lastOp' = "ParseCompileStart"
    /\ buildCalls' = 0
    /\ UNCHANGED <<config, piecewise_graph_file, pre_subgraph_artifacts,
                   lastGroups, adds, cfgHistory>>
    /\ UNCHANGED notVllm

(* A vllm_subgraph_* / vllm_submod_* graph dump reaches                     *)
(* VllmPiecewiseCompileParser, or a vllm_piecewise_split_graph dump reaches *)
(* VllmPiecewiseSplitGraphParser: the state only learns that a vllm         *)
(* artifact was seen (the file is attached by add_artifact, below).         *)
ParseGraphDump ==
    /\ nrecords < MaxRecords
    /\ nrecords' = nrecords + 1
    /\ has_vllm_artifacts' = TRUE
    /\ lastOp' = "ParseGraphDump"
    /\ buildCalls' = 0
    /\ UNCHANGED <<config, piecewise_graph_file, subgraphs, pre_subgraph_artifacts,
                   lastGroups, adds, pushed, cfgHistory>>
    /\ UNCHANGED notVllm

(* add_artifact(filename, suffix), called for every file written. *)
AddArtifact(f, suffix) ==
    /\ nrecords < MaxRecords
    /\ nrecords' = nrecords + 1
    /\ LET art == MkArtifact(f, suffix)
           r   == Attach(subgraphs, pre_subgraph_artifacts, art)
       IN  /\ piecewise_graph_file' = TrackSplitGraph(piecewise_graph_file, art)
           /\ subgraphs' = r.units
           /\ pre_subgraph_artifacts' = r.bucket
           /\ adds' = Append(adds, [art |-> art, at |-> Len(subgraphs)])
    /\ lastOp' = "AddArtifact"
    /\ buildCalls' = 0
    /\ UNCHANGED <<config, has_vllm_artifacts, lastGroups, pushed, cfgHistory>>
    /\ UNCHANGED notVllm

(* build_compile_range_groups(), as generate_vllm_summary calls it. *)
BuildGroups ==
    /\ LET r == build_compile_range_groups(subgraphs)
       IN  /\ lastGroups' = r.result
           /\ subgraphs' = r.units
    /\ lastOp' = "BuildGroups"
    /\ buildCalls' = IF buildCalls < 2 THEN buildCalls + 1 ELSE 2
    /\ UNCHANGED <<config, piecewise_graph_file, pre_subgraph_artifacts,
                   has_vllm_artifacts, adds, pushed, cfgHistory, nrecords>>
    /\ UNCHANGED notVllm

NextVllm ==
    \/ \E p \in ConfigPayloads : ParseConfig(p)
    \/ \E p \in SubgraphPayloads : ParseCompileStart(p)
    \/ ParseGraphDump
    \/ \E f \in ArtifactFiles : AddArtifact(f, "")
    \/ BuildGroups

-----------------------------------------------------------------------------
(* The summary page: VllmState::build_dynamo_artifacts,                     *)
(* generate_vllm_summary and the gates of VLLM_SUMMARY_TEMPLATE.            *)

dynamo_names == <<"dynamo_side_effects", "dynamo_output_graph",
                  "dynamo_cpp_guards_str", "compilation_metrics">>

IsDynamoName(a) ==
    \E k \in 1..Len(dynamo_names) : StartsWithMarker(a.name, dynamo_names[k])

BuildDynamoUnfiltered(bucket, units) ==
    [result |-> bucket, bucket |-> bucket]

(* build_dynamo_artifacts(&self): what it returns, and the pre-subgraph     *)
(* bucket it leaves behind (it filters a borrow and clones what it keeps).  *)
build_dynamo_artifacts(bucket, units) ==
    [result |-> SelectSeq(bucket, IsDynamoName), bucket |-> bucket]

(* VllmCompilationConfig::default(): every field None. *)
DefaultConfig == [f \in CfgFields |-> None]

(* The type of each context field a gate of the template names             *)
(* (VllmSummaryContext and VllmSubgraphWithArtifacts). *)
ContextFieldType ==
    [has_config |-> "bool", has_dynamo_artifacts |-> "bool",
     has_piecewise |-> "bool", artifacts |-> "list"]

(* The {{ if ... }} gates of the template outside the loops: the section    *)
(* and the context field its condition names.                               *)
TopLevelGates ==
    << [section |-> "config",    cond |-> "has_config"],
       [section |-> "dynamo",    cond |-> "has_dynamo_artifacts"],
       [section |-> "piecewise", cond |-> "has_piecewise"] >>

(* The {{ if subgraph.artifacts }} gate inside the two loops. *)
UnitGate == [section |-> "unit_artifacts", cond |-> "artifacts"]

(* How TinyTemplate reads the value of a condition: a boolean is itself, a  *)
(* list is true when it is not empty.                                       *)
Truthy(type, value) == IF type = "bool" THEN value ELSE Len(value) > 0

(* One gate of the template evaluated on the value of its field: where it   *)
(* is (<<>> outside the loops, <<group, unit>> inside), the type of the     *)
(* value it tested and whether the section was rendered.                    *)
Decide(gate, at, value) ==
    [section |-> gate.section, at |-> at, cond |-> gate.cond,
     type |-> ContextFieldType[gate.cond],
     shown |-> Truthy(ContextFieldType[gate.cond], value)]

(* The units of the groups in the order the two loops visit them. *)
RECURSIVE UnitPositions(_, _, _)
UnitPositions(groups, i, j) ==
    IF i > Len(groups) THEN <<>>
    ELSE IF j > Len(groups[i].submods) THEN UnitPositions(groups, i + 1, 1)
    ELSE <<(<<i, j>>)>> \o UnitPositions(groups, i, j + 1)

(* tt.render("vllm_summary.html", &context): the gates in template order. *)
render(ctx) ==
    LET pos == UnitPositions(ctx.compile_range_groups, 1, 1)
    IN  [k \in 1..Len(TopLevelGates) |->
            Decide(TopLevelGates[k], <<>>, ctx[TopLevelGates[k].cond])]
        \o [k \in 1..Len(pos) |->
               Decide(UnitGate, pos[k],
                      ctx.compile_range_groups[pos[k][1]].submods[pos[k][2]].artifacts)]

(* The headings the template writes for a context, in document order, each  *)
(* with the number of entries written under it: the rows of the config      *)
(* tables, the links of a list, the groups, the units of a group.  The      *)
(* heading of the inductor section stands outside every if block.           *)
headings(ctx) ==
    (IF ctx.has_config
     THEN <<[section |-> "config", entries |-> Cardinality(CfgFields)]>>
     ELSE <<>>)
    \o (IF ctx.has_dynamo_artifacts
        THEN <<[section |-> "dynamo", entries |-> Len(ctx.dynamo_artifacts)]>>
        ELSE <<>>)
    \o (IF ctx.has_piecewise
        THEN <<[section |-> "piecewise", entries |-> 1]>>
        ELSE <<>>)
    \o <<[section |-> "inductor", entries |-> Len(ctx.compile_range_groups)]>>
    \o [i \in 1..Len(ctx.compile_range_groups) |->
           [section |-> "group",
            entries |-> Len(ctx.compile_range_groups[i].submods)]]

SummaryFlagFromBucket(cfg, bucket, link, units) ==
    LET d == build_dynamo_artifacts(bucket, units)
        g == build_compile_range_groups(units)
    IN  [context |->
            [config               |-> IF cfg = None THEN DefaultConfig ELSE cfg[1],
             has_config           |-> cfg # None,
             dynamo_artifacts     |-> d.result,
             has_dynamo_artifacts |-> bucket # <<>>,
             piecewise_graph_file |-> link,
             has_piecewise        |-> link # None,
             compile_range_groups |-> g.result],
         bucket |-> d.bucket,
         units  |-> g.units]

(* generate_vllm_summary: the context it builds and the bucket and the      *)
(* unit list it leaves behind.                                              *)
generate_vllm_summary(cfg, bucket, link, units) ==
    LET d == build_dynamo_artifacts(bucket, units)
        g == build_compile_range_groups(units)
    IN  [context |->
            [config               |-> IF cfg = None THEN DefaultConfig ELSE cfg[1],
             has_config           |-> cfg # None,
             dynamo_artifacts     |-> d.result,
             has_dynamo_artifacts |-> d.result # <<>>,
             piecewise_graph_file |-> link,
             has_piecewise        |-> link # None,
             compile_range_groups |-> g.result],
         bucket |-> d.bucket,
         units  |-> g.units]

InitReportIdle == summary = None

(* A record or an artifact reaches the accumulator while the log is read. *)
Collect ==
    /\ summary = None
    /\ \/ \E p \in ConfigPayloads : ParseConfig(p)
       \/ \E p \in SubgraphPayloads : ParseCompileStart(p)
       \/ \E f \in ArtifactFiles : AddArtifact(f, "")

(* The summary page is generated, once, from what was accumulated. *)
GenerateSummary ==
    /\ summary = None
    /\ LET r == generate_vllm_summary(config, pre_subgraph_artifacts,
                                      piecewise_graph_file, subgraphs)
       IN  /\ summary' = Some([context  |-> r.context,
                               rendered |-> render(r.context),
                               headings |-> headings(r.context),
                               before   |-> [bucket |-> pre_subgraph_artifacts,
                                             units  |-> subgraphs]])
           /\ pre_subgraph_artifacts' = r.bucket
           /\ subgraphs' = r.units
    /\ lastOp' = "GenerateSummary"
    /\ UNCHANGED <<config, piecewise_graph_file, has_vllm_artifacts, lastGroups,
                   buildCalls, adds, pushed, cfgHistory, nrecords>>
    /\ UNCHANGED <<rankVars, srvVars, dispVars, loopVars>>

NextReport == Collect \/ GenerateSummary

-----------------------------------------------------------------------------
(* Multi-rank orchestration: handle_all_ranks (src/cli.rs).                 *)

(* The most entries an input directory holds. *)
MaxFiles == 3

Prefix == "dedicated_log_torch_trace_rank_"

Suffix == ".log"

Digits == {"0", "1", "2", "3", "4", "5", "6", "7", "8", "9"}

DigitValue(d) ==
    CASE d = "0" -> 0 [] d = "1" -> 1 [] d = "2" -> 2 [] d = "3" -> 3 [] d = "4" -> 4
      [] d = "5" -> 5 [] d = "6" -> 6 [] d = "7" -> 7 [] d = "8" -> 8 [] d = "9" -> 9

DigitOf(n) ==
    CASE n = 0 -> "0" [] n = 1 -> "1" [] n = 2 -> "2" [] n = 3 -> "3" [] n = 4 -> "4"
      [] n = 5 -> "5" [] n = 6 -> "6" [] n = 7 -> "7" [] n = 8 -> "8" [] n = 9 -> "9"

(* A directory entry: the tokens of its file name (the fixed prefix and the *)
(* suffix are one token each, a rank token is spelt digit by digit) and     *)
(* whether it is a regular file.                                            *)
Entry(name, isFile) == [name |-> name, is_file |-> isFile]

FilePool ==
    { Entry(<<Prefix, "1", "_", "a", Suffix>>, TRUE),
      Entry(<<Prefix, "0", "1", "_", "b", Suffix>>, TRUE),
      Entry(<<Prefix, "2", "_", "a", Suffix>>, TRUE),
      Entry(<<Prefix, "1", "0", "_", "a", Suffix>>, TRUE),
      Entry(<<Prefix, "0", Suffix>>, TRUE),
      Entry(<<"notes.txt">>, TRUE),
      Entry(<<Prefix, "3", "x", "_", "a", Suffix>>, TRUE),
      Entry(<<Prefix, "4", "_", "a", Suffix>>, FALSE),
      Entry(<<Prefix, "5", "_", "a">>, TRUE),
      Entry(<<Prefix, "9", "9", "9", "9", "9", "9", "9", "9", "9", "9", Suffix>>, TRUE) }

(* str::strip_prefix and str::strip_suffix *)
strip_prefix(name) ==
    IF Len(name) >= 1 /\ name[1] = Prefix THEN Some(Tail(name)) ELSE None

strip_suffix(s) ==
    IF Len(s) >= 1 /\ s[Len(s)] = Suffix THEN Some(SubSeq(s, 1, Len(s) - 1)) ELSE None

(* s.split('_').next(): what precedes the first '_'. *)
RECURSIVE split_first(_)
split_first(s) ==
    IF s = <<>> \/ Head(s) = "_" THEN <<>> ELSE <<Head(s)>> \o split_first(Tail(s))

RECURSIVE DigitsValue(_, _)
DigitsValue(ds, acc) ==
    IF ds = <<>> THEN acc ELSE DigitsValue(Tail(ds), 10 * acc + DigitValue(Head(ds)))

RECURSIVE StripZeros(_)
StripZeros(ds) == IF Len(ds) > 1 /\ Head(ds) = "0" THEN StripZeros(Tail(ds)) ELSE ds

U32MaxDigits == <<"4", "2", "9", "4", "9", "6", "7", "2", "9", "5">>

RECURSIVE DigitsLeq(_, _)
DigitsLeq(a, b) ==
    IF a = <<>> THEN TRUE
    ELSE IF DigitValue(Head(a)) # DigitValue(Head(b))
         THEN DigitValue(Head(a)) < DigitValue(Head(b))
         ELSE DigitsLeq(Tail(a), Tail(b))

(* Whether the digits, without leading zeros, denote a number <= u32::MAX. *)
FitsU32(ds) ==
    LET z == StripZeros(ds)
    IN  Len(z) < Len(U32MaxDigits) \/ (Len(z) = Len(U32MaxDigits) /\ DigitsLeq(z, U32MaxDigits))

(* str::parse::<u32>: an optional '+', then one or more digits, no overflow. *)
parse_u32(tok) ==
    LET ds == IF Len(tok) >= 1 /\ tok[1] = "+" THEN Tail(tok) ELSE tok
    IN  IF ds # <<>> /\ (\A i \in 1..Len(ds) : ds[i] \in Digits) /\ FitsU32(ds)
        THEN Some(DigitsValue(ds, 0)) ELSE None

(* The closure of filter_map: the (path, rank) of a rank log, None for      *)
(* anything else.                                                           *)
DiscoverEntry(e) ==
    IF ~e.is_file THEN None
    ELSE LET a == strip_prefix(e.name)
         IN  IF a = None THEN None
             ELSE LET b == strip_suffix(a[1])
                  IN  IF b = None THEN None
                      ELSE LET r == parse_u32(split_first(b[1]))
                           IN  IF r = None THEN None
                               ELSE Some([path |-> e.name, rank |-> r[1]])

RECURSIVE FilterMapDiscover(_)
FilterMapDiscover(es) ==
    IF es = <<>> THEN <<>>
    ELSE DiscoverEntry(Head(es)) \o FilterMapDiscover(Tail(es))

(* u32::to_string *)
RECURSIVE to_string(_)
to_string(n) == IF n < 10 THEN <<DigitOf(n)>> ELSE to_string(n \div 10) \o <<DigitOf(n % 10)>>

RECURSIVE InsertSorted(_, _)
InsertSorted(s, x) ==
    IF s = <<>> THEN <<x>>
    ELSE IF x <= Head(s) THEN <<x>> \o s
    ELSE <<Head(s)>> \o InsertSorted(Tail(s), x)

RECURSIVE SortNumbers(_)
SortNumbers(s) == IF s = <<>> THEN <<>> ELSE InsertSorted(SortNumbers(Tail(s)), Head(s))

(* Whether the text of a is before or equal to that of b. *)
RECURSIVE LexLeq(_, _)
LexLeq(a, b) ==
    IF a = <<>> THEN TRUE
    ELSE IF b = <<>> THEN FALSE
    ELSE IF Head(a) # Head(b) THEN DigitValue(Head(a)) < DigitValue(Head(b))
    ELSE LexLeq(Tail(a), Tail(b))

RECURSIVE InsertLex(_, _)
InsertLex(s, x) ==
    IF s = <<>> THEN <<x>>
    ELSE IF LexLeq(to_string(x), to_string(Head(s))) THEN <<x>> \o s
    ELSE <<Head(s)>> \o InsertLex(Tail(s), x)

RECURSIVE SortAsText(_)
SortAsText(s) == IF s = <<>> THEN <<>> ELSE InsertLex(SortAsText(Tail(s)), Head(s))

(* rank_nums.sort_unstable() *)
sort_unstable(s) == SortNumbers(s)

(* rank_nums, sorted, each as a string. *)
SortedRanks(logs) ==
    LET nums   == [i \in 1..Len(logs) |-> logs[i].rank]
        sorted == sort_unstable(nums)
    IN  [i \in 1..Len(sorted) |-> to_string(sorted[i])]

RECURSIVE InsertByRank(_, _)
InsertByRank(s, x) ==
    IF s = <<>> THEN <<x>>
    ELSE IF x.rank <= Head(s).rank THEN <<x>> \o s
    ELSE <<Head(s)>> \o InsertByRank(Tail(s), x)

RECURSIVE AscendingLoopOrder(_)
AscendingLoopOrder(logs) ==
    IF logs = <<>> THEN <<>> ELSE InsertByRank(AscendingLoopOrder(Tail(logs)), Head(logs))

(* for (log_path, rank_num) in rank_logs: the order the loop takes them in. *)
LoopOrder(logs) == logs

(* out_path.join(format!("rank_{rank_num}")) *)
Subdir(rank) == <<"rank_">> \o to_string(rank)

-----------------------------------------------------------------------------
(* The output tree.  sub maps the name of each subdirectory of the root to  *)
(* [of |-> the log it was made for, state |-> "empty" | "partial" |         *)
(* "full"]; stale says that the root still holds what an earlier run left;  *)
(* landing that this run's landing page is there.                           *)

NoSubdirs == << >>

EmptyRoot == [root |-> TRUE, stale |-> FALSE, sub |-> NoSubdirs, landing |-> FALSE]

DirExists(d, name) == \E i \in 1..Len(d.sub) : d.sub[i].name = name

DirOf(d, name) == d.sub[CHOOSE i \in 1..Len(d.sub) : d.sub[i].name = name]

RemoveDir(d, name) == [d EXCEPT !.sub = SelectSeq(@, LAMBDA x : x.name # name)]

PutDir(d, name, of, state) ==
    [RemoveDir(d, name) EXCEPT
        !.sub = Append(@, [name |-> name, of |-> of, state |-> state])]

(* setup_output_directory(out_path, overwrite) on the output root. *)
SetupRoot(d, ow) ==
    IF d.root /\ ~ow THEN [ok |-> FALSE, disk |-> d]
    ELSE [ok |-> TRUE, disk |-> EmptyRoot]

SetupSubdirKeep(d, name, of, ow) ==
    IF DirExists(d, name) THEN [ok |-> TRUE, disk |-> d]
    ELSE [ok |-> TRUE, disk |-> PutDir(d, name, of, "empty")]

(* setup_output_directory(subdir, overwrite) on a rank's subdirectory. *)
SetupSubdir(d, name, of, ow) ==
    IF DirExists(d, name) /\ ~ow THEN [ok |-> FALSE, disk |-> d]
    ELSE [ok |-> TRUE, disk |-> PutDir(d, name, of, "empty")]

(* How the single-rank pipeline can end once the directory is set up:       *)
(* parse_path fails, a write of the loop fails, or everything is written.   *)
Outcomes == {"ok", "parse_err", "write_err"}

(* parse_and_write_output into an existing subdirectory. *)
ParseAndWrite(d, name, of, outcome) ==
    CASE outcome = "ok"        -> PutDir(d, name, of, "full")
      [] outcome = "parse_err" -> d
      [] outcome = "write_err" -> PutDir(d, name, of, "partial")

handle_one_rank_unchecked(d, log, ow, outcome) ==
    LET s == SetupSubdir(d, Subdir(log.rank), log.path, ow)
    IN  IF ~s.ok THEN [ok |-> TRUE, err |-> "none", disk |-> d]
        ELSE [ok   |-> TRUE,
              err  |-> "none",
              disk |-> ParseAndWrite(s.disk, Subdir(log.rank), log.path, outcome)]

(* handle_one_rank(cfg, log_path, false, subdir, false, overwrite) *)
handle_one_rank(d, log, ow, outcome) ==
    LET s == SetupSubdir(d, Subdir(log.rank), log.path, ow)
    IN  IF ~s.ok THEN [ok |-> FALSE, err |-> "rank_exists", disk |-> d]
        ELSE [ok   |-> outcome = "ok",
              err  |-> IF outcome = "ok" THEN "none" ELSE outcome,
              disk |-> ParseAndWrite(s.disk, Subdir(log.rank), log.path, outcome)]

(* generate_multi_rank_landing writes the landing page into the root. *)
generate_multi_rank_landing(d) == [d EXCEPT !.landing = TRUE]

(* The output root as a run finds it: not there, or left by an earlier run. *)
InitialDisks ==
    {[root |-> FALSE, stale |-> FALSE, sub |-> NoSubdirs, landing |-> FALSE],
     [root |-> TRUE, stale |-> TRUE, sub |-> NoSubdirs, landing |-> FALSE]}

Perms(S) ==
    {s \in [1..Cardinality(S) -> S] : \A i, j \in 1..Cardinality(S) : i # j => s[i] # s[j]}

InitRanks ==
    /\ dirEntries \in {S \in SUBSET FilePool : Cardinality(S) <= MaxFiles}
    /\ inputIsDir \in BOOLEAN
    /\ overwrite \in BOOLEAN
    /\ disk \in InitialDisks
    /\ pc = "start"
    /\ err = "none"
    /\ listing = <<>>
    /\ rank_logs = <<>>
    /\ sorted_ranks = <<>>
    /\ todo = <<>>
    /\ attempts = <<>>

Fail(e) == pc' = "failed" /\ err' = e

(* handle_all_ranks up to its for loop: the directory check, the setup of   *)
(* the output root, discovery and the sorting of the rank labels.           *)
Discover ==
    /\ pc = "start"
    /\ IF ~inputIsDir
       THEN /\ Fail("not_dir")
            /\ UNCHANGED <<disk, listing, rank_logs, sorted_ranks, todo>>
       ELSE LET s == SetupRoot(disk, overwrite)
            IN  IF ~s.ok
                THEN /\ Fail("out_exists")
                     /\ UNCHANGED <<disk, listing, rank_logs, sorted_ranks, todo>>
                ELSE /\ disk' = s.disk
                     /\ \E order \in Perms(dirEntries) :
                           /\ listing' = order
                           /\ rank_logs' = FilterMapDiscover(order)
                     /\ IF rank_logs' = <<>>
                        THEN /\ Fail("no_logs")
                             /\ UNCHANGED <<sorted_ranks, todo>>
                        ELSE /\ sorted_ranks' = SortedRanks(rank_logs')
                             /\ todo' = LoopOrder(rank_logs')
                             /\ pc' = "processing"
                             /\ UNCHANGED err
    /\ UNCHANGED <<dirEntries, inputIsDir, overwrite, attempts>>
    /\ UNCHANGED notRanks

(* One turn of the for loop: handle_one_rank(...)? *)
ProcessRank(outcome) ==
    /\ pc = "processing"
    /\ todo # <<>>
    /\ LET r == handle_one_rank(disk, Head(todo), overwrite, outcome)
       IN  /\ disk' = r.disk
           /\ attempts' = Append(attempts, [path |-> Head(todo).path,
                                            rank |-> Head(todo).rank,
                                            ok   |-> r.ok])
           /\ IF r.ok
              THEN todo' = Tail(todo) /\ UNCHANGED <<pc, err>>
              ELSE Fail(r.err) /\ UNCHANGED todo
    /\ UNCHANGED <<dirEntries, inputIsDir, overwrite, listing, rank_logs, sorted_ranks>>
    /\ UNCHANGED notRanks

(* After the loop: the landing page, and the browser if asked for. *)
Landing(outcome) ==
    /\ pc = "processing"
    /\ todo = <<>>
    /\ CASE outcome = "ok" ->
              disk' = generate_multi_rank_landing(disk) /\ pc' = "done" /\ UNCHANGED err
         [] outcome = "landing_err" ->
              Fail("landing") /\ UNCHANGED disk
         [] outcome = "open_err" ->
              disk' = generate_multi_rank_landing(disk) /\ Fail("open")
    /\ UNCHANGED <<dirEntries, inputIsDir, overwrite, listing, rank_logs, sorted_ranks,
                   todo, attempts>>
    /\ UNCHANGED notRanks

NextRanks ==
    \/ Discover
    \/ \E o \in Outcomes : ProcessRank(o)
    \/ \E o \in {"ok", "landing_err", "open_err"} : Landing(o)

-----------------------------------------------------------------------------
(* The static file server: serve_directory (src/cli.rs).                    *)
(*                                                                          *)
(* A path is the sequence of its components from the file system root. A    *)
(* url is a sequence of tokens: the characters '/', '%', '+', ' ', '.' and  *)
(* the hex digits are tokens of their own, any other token is a run of      *)
(* characters none of which is one of these.                                *)

NoNode == [kind |-> "none", to |-> <<>>, io |-> "ok"]

DirNode == [kind |-> "dir", to |-> <<>>, io |-> "ok"]

FileNode(io) == [kind |-> "file", to |-> <<>>, io |-> io]

LinkNode(target) == [kind |-> "link", to |-> target, io |-> "ok"]

OutDir == <<"out">>

SecretPath == <<"etc", "secret">>

Paths ==
    { <<"out">>, <<"out", "index.html">>, <<"out", "a.txt">>, <<"out", "link">>,
      <<"out", "rank_0">>, <<"out", "rank_0", "index.html">>, <<"etc">>, <<"etc", "secret">>,
      <<"out", "raw">>, <<"out", "b.dat">>, <<"out", "C.HTML">> }

(* The output tree as the parse left it, with a file a.txt that is absent,  *)
(* readable, unopenable or unreadable, a symlink that is absent or points   *)
(* to a.txt or out of the tree, and a file outside the tree that is there   *)
(* or not.                                                                  *)
MkFs(a, link, secret) ==
    [p \in Paths |->
        CASE p = <<"out", "a.txt">> -> IF a = "none" THEN NoNode ELSE FileNode(a)
          [] p = <<"out", "link">> ->
                IF link = "none" THEN NoNode
                ELSE IF link = "in" THEN LinkNode(<<"out", "a.txt">>)
                ELSE LinkNode(SecretPath)
          [] p = SecretPath -> IF secret THEN FileNode("ok") ELSE NoNode
          [] p \in {<<"out">>, <<"out", "rank_0">>, <<"etc">>} -> DirNode
          [] OTHER -> FileNode("ok")]

FsStates ==
    {MkFs(a, l, s) : a \in {"none", "ok", "open_err", "read_err"},
                     l \in {"none", "in", "out"}, s \in BOOLEAN}

NodeAt(fsys, p) ==
    IF p = <<>> THEN DirNode ELSE IF p \in DOMAIN fsys THEN fsys[p] ELSE NoNode

HexDigits == {"0", "1", "2", "3", "4", "5", "6", "7", "8", "9",
              "a", "b", "c", "d", "e", "f", "A", "B", "C", "D", "E", "F"}

HexValue(h) ==
    CASE h \in Digits -> DigitValue(h)
      [] h \in {"a", "A"} -> 10 [] h \in {"b", "B"} -> 11 [] h \in {"c", "C"} -> 12
      [] h \in {"d", "D"} -> 13 [] h \in {"e", "E"} -> 14 [] h \in {"f", "F"} -> 15

(* byte as char, for the bytes the urls of the model spell. *)
ByteChar(b) ==
    CASE b = 32 -> " " [] b = 37 -> "%" [] b = 43 -> "+" [] b = 46 -> "." [] b = 47 -> "/"
      [] OTHER -> "?"

(* url.trim_start_matches('/') *)
RECURSIVE trim_start_slashes(_)
trim_start_slashes(u) ==
    IF u # <<>> /\ Head(u) = "/" THEN trim_start_slashes(Tail(u)) ELSE u

(* urlencoding_decode: %XX is the byte XX, '+' is a space, a '%' that is    *)
(* not followed by two hex digits stays, with the (up to two) characters    *)
(* taken after it.                                                          *)
RECURSIVE urlencoding_decode(_)
urlencoding_decode(u) ==
    IF u = <<>> THEN <<>>
    ELSE IF Head(u) = "%"
    THEN LET hex == SubSeq(u, 2, IF Len(u) >= 3 THEN 3 ELSE Len(u))
             rest == SubSeq(u, 2 + Len(hex), Len(u))
         IN  IF Len(hex) = 2 /\ hex[1] \in HexDigits /\ hex[2] \in HexDigits
             THEN <<ByteChar(16 * HexValue(hex[1]) + HexValue(hex[2]))>>
                      \o urlencoding_decode(rest)
             ELSE <<"%">> \o hex \o urlencoding_decode(rest)
    ELSE IF Head(u) = "+" THEN <<" ">> \o urlencoding_decode(Tail(u))
    ELSE <<Head(u)>> \o urlencoding_decode(Tail(u))

(* The name a run of tokens between two separators spells. *)
CompName(toks) ==
    IF toks = <<".", ".">> THEN ".."
    ELSE IF Len(toks) = 1 THEN toks[1]
    ELSE "?"

(* The components of a path string: what stands between the separators. *)
RECURSIVE SplitPath(_, _)
SplitPath(s, cur) ==
    IF s = <<>> THEN (IF cur = <<>> THEN <<>> ELSE <<CompName(cur)>>)
    ELSE IF Head(s) = "/"
         THEN (IF cur = <<>> THEN <<>> ELSE <<CompName(cur)>>) \o SplitPath(Tail(s), <<>>)
         ELSE SplitPath(Tail(s), Append(cur, Head(s)))

IsAbsolute(s) == s # <<>> /\ Head(s) = "/"

(* Whether the path string asks for a directory (it ends with a separator). *)
EndsWithSlash(s) == s # <<>> /\ s[Len(s)] = "/"

(* PathBuf::join: an absolute path replaces the base. *)
Join(base, s) == IF IsAbsolute(s) THEN SplitPath(s, <<>>) ELSE base \o SplitPath(s, <<>>)

RequestPathNoIndex(root, url) ==
    Join(root, urlencoding_decode(trim_start_slashes(url)))

(* dir.join("index.html") for an empty url path, dir.join(&url_path) otherwise. *)
RequestPath(root, url) ==
    LET url_path == urlencoding_decode(trim_start_slashes(url))
    IN  IF url_path = <<>> THEN root \o <<"index.html">> ELSE Join(root, url_path)

RequestWantsDir(url) == EndsWithSlash(urlencoding_decode(trim_start_slashes(url)))

CanonErr == [ok |-> FALSE, path |-> <<>>]

(* Path::canonicalize: the components are resolved one by one from the      *)
(* root, a symlink is replaced by its target, ".." by the parent of what    *)
(* was resolved so far; a component that does not exist, or one below       *)
(* something that is no directory, is an error.                             *)
RECURSIVE Resolve(_, _, _)
Resolve(fsys, cur, comps) ==
    IF comps = <<>> THEN [ok |-> TRUE, path |-> cur]
    ELSE IF NodeAt(fsys, cur).kind # "dir" THEN CanonErr
    ELSE IF Head(comps) = "." THEN Resolve(fsys, cur, Tail(comps))
    ELSE IF Head(comps) = ".."
         THEN Resolve(fsys, IF cur = <<>> THEN cur ELSE SubSeq(cur, 1, Len(cur) - 1), Tail(comps))
    ELSE LET p == Append(cur, Head(comps))
             n == NodeAt(fsys, p)
         IN  IF n.kind = "none" THEN CanonErr
             ELSE IF n.kind = "link"
                  THEN (IF NodeAt(fsys, n.to).kind = "none" THEN CanonErr
                        ELSE Resolve(fsys, n.to, Tail(comps)))
             ELSE Resolve(fsys, p, Tail(comps))

canonicalize(fsys, comps, wantsDir) ==
    LET r == Resolve(fsys, <<>>, comps)
    IN  IF r.ok /\ wantsDir /\ NodeAt(fsys, r.path).kind # "dir" THEN CanonErr ELSE r

(* Path::starts_with: component by component. *)
starts_with(p, base) == Len(p) >= Len(base) /\ SubSeq(p, 1, Len(base)) = base

(* Path::extension of the names of the model. *)
Extension(name) ==
    CASE name = "index.html" -> "html" [] name = "a.txt" -> "txt"
      [] name = "b.dat" -> "dat" [] name = "C.HTML" -> "HTML" [] OTHER -> ""

(* str::to_lowercase of the extensions of the model. *)
to_lowercase(e) == IF e = "HTML" THEN "html" ELSE e

GuessTextByDefault(p) ==
    LET ext == IF p = <<>> THEN "" ELSE to_lowercase(Extension(p[Len(p)]))
    IN  CASE ext \in {"html", "htm"} -> "text/html; charset=utf-8"
          [] OTHER -> "text/plain; charset=utf-8"

(* guess_content_type *)
guess_content_type(p) ==
    LET ext == IF p = <<>> THEN "" ELSE to_lowercase(Extension(p[Len(p)]))
    IN  CASE ext \in {"html", "htm"} -> "text/html; charset=utf-8"
          [] ext = "css" -> "text/css; charset=utf-8"
          [] ext = "js" -> "application/javascript; charset=utf-8"
          [] ext = "json" -> "application/json; charset=utf-8"
          [] ext = "png" -> "image/png"
          [] ext \in {"jpg", "jpeg"} -> "image/jpeg"
          [] ext = "gif" -> "image/gif"
          [] ext = "svg" -> "image/svg+xml"
          [] ext = "txt" -> "text/plain; charset=utf-8"
          [] ext = "py" -> "text/x-python; charset=utf-8"
          [] OTHER -> "application/octet-stream"

(* Response::from_string(text).with_status_code(code) *)
TextResponse(code, text) ==
    [status |-> code, body |-> <<text>>, ctype |-> "text/plain; charset=UTF-8"]

(* Response::from_data(content).with_header(Content-Type): the content of   *)
(* a file is named by the file's path.                                      *)
FileResponse(p) ==
    [status |-> 200, body |-> <<"content of">> \o p, ctype |-> guess_content_type(p)]

AllowedLexically(c, joined, root) == c.ok /\ starts_with(joined, root)

(* Ok(p) if p.starts_with(&dir) *)
Allowed(c, joined, root) == c.ok /\ starts_with(c.path, root)

RejectTelling(c) ==
    IF c.ok THEN TextResponse(403, "403 Forbidden") ELSE TextResponse(404, "404 Not Found")

(* The arm `_ =>` of the match on canonicalize: the path does not exist or  *)
(* is not below the root.                                                   *)
Reject(c) == TextResponse(404, "404 Not Found")

(* The body of the loop over incoming_requests: the response to a request. *)
Respond(fsys, root, url) ==
    LET joined == RequestPath(root, url)
        c      == canonicalize(fsys, joined, RequestWantsDir(url))
    IN  IF ~Allowed(c, joined, root) THEN Reject(c)
        ELSE LET n == NodeAt(fsys, c.path)
             IN  IF n.kind = "file"
                 THEN CASE n.io = "open_err" -> TextResponse(404, "404 Not Found")
                        [] n.io = "read_err" ->
                               TextResponse(500, "500 Internal Server Error")
                        [] OTHER -> FileResponse(c.path)
                 ELSE TextResponse(404, "404 Not Found")

Requests ==
    { <<"/">>,
      <<"/", "index.html">>,
      <<"/", "a.txt">>,
      <<"/", "link">>,
      <<"/", "rank_0">>,
      <<"/", "rank_0", "/", "index.html">>,
      <<"/", "missing">>,
      <<"/", ".", ".", "/", "etc", "/", "secret">>,
      <<"/", "%", "2", "F", "etc", "/", "secret">>,
      <<"/", "%", "2", "e", "%", "2", "E", "/", "etc", "/", "secret">>,
      <<"/", "/", "etc", "/", "secret">>,
      <<"/", "rank_0", "/", ".", ".", "/", "a.txt">>,
      <<"/", "a", "+", "txt">>,
      <<"/", "%", "2">>,
      <<"/", "raw">>,
      <<"/", "b.dat">>,
      <<"/", "C.HTML">> }

(* The methods of the requests that are sent. *)
Methods == {"GET", "POST"}

AnswerGetOnly(fsys, root, method, url) ==
    IF method = "GET" THEN Respond(fsys, root, url)
    ELSE TextResponse(404, "404 Not Found")

(* The response to a request: the loop body reads request.url() and never   *)
(* request.method().                                                        *)
Answer(fsys, root, method, url) == Respond(fsys, root, url)

(* The range find_available_port is called with: 8000..8100, the end        *)
(* excluded.                                                                *)
PortRangeStart == 8000

PortRangeEnd == 8100

(* The ports whose state the model varies; every other port is taken. *)
SamplePorts == {8000, 8001, 8099, 8100, 9000}

RECURSIVE FindPortInclusive(_, _, _)
FindPortInclusive(start, end, free) ==
    IF start > end THEN [ok |-> FALSE, port |-> 0]
    ELSE IF start \in free THEN [ok |-> TRUE, port |-> start]
    ELSE FindPortInclusive(start + 1, end, free)

(* find_available_port(start, end): the first port of start..end (end       *)
(* excluded) that TcpListener::bind accepts.                                *)
RECURSIVE find_available_port(_, _, _)
find_available_port(start, end, free) ==
    IF start >= end THEN [ok |-> FALSE, port |-> 0]
    ELSE IF start \in free THEN [ok |-> TRUE, port |-> start]
    ELSE find_available_port(start + 1, end, free)

ListenWithFallback(arg, free) ==
    LET f == find_available_port(PortRangeStart, PortRangeEnd, free)
    IN  IF arg # None /\ arg[1] \in free THEN [ok |-> TRUE, port |-> arg[1]] ELSE f

(* The head of serve_directory: the port is the one asked for or the one    *)
(* find_available_port returns, and tiny_http::Server::http binds it.       *)
Listen(arg, free) ==
    LET f == IF arg # None THEN [ok |-> TRUE, port |-> arg[1]]
             ELSE find_available_port(PortRangeStart, PortRangeEnd, free)
    IN  IF f.ok /\ f.port \in free THEN f ELSE [ok |-> FALSE, port |-> 0]

NoRequest == [method |-> "", url |-> <<>>, resp |-> TextResponse(0, ""), canon |-> CanonErr,
              as_get |-> TextResponse(0, ""), node |-> NoNode,
              as_index |-> TextResponse(0, "")]

InitServeIdle ==
    /\ fs = MkFs("ok", "in", TRUE)
    /\ srv = "idle"
    /\ dir = <<>>
    /\ last = NoRequest
    /\ accepted = None
    /\ seenEscape = {}
    /\ seenAbsent = {}
    /\ portArg = None
    /\ bindable = SamplePorts
    /\ bound = None

InitServe ==
    /\ fs \in FsStates
    /\ srv = "idle"
    /\ dir = <<>>
    /\ last = NoRequest
    /\ accepted = None
    /\ seenEscape = {}
    /\ seenAbsent = {}
    /\ portArg = None
    /\ bindable = SamplePorts
    /\ bound = None

(* serve_directory up to its loop: the server is bound and the root         *)
(* canonicalized, once.                                                     *)
StartServer ==
    /\ srv = "idle"
    /\ canonicalize(fs, OutDir, FALSE).ok
    /\ LET l == Listen(portArg, bindable)
       IN  IF l.ok
           THEN /\ bound' = Some(l.port)
                /\ dir' = canonicalize(fs, OutDir, FALSE).path
                /\ srv' = "listening"
           ELSE /\ srv' = "failed"
                /\ UNCHANGED <<bound, dir>>
    /\ UNCHANGED <<fs, last, accepted, seenEscape, seenAbsent, portArg, bindable>>
    /\ UNCHANGED notServe

(* One turn of the loop over incoming_requests. *)
HandleRequest(method, url) ==
    /\ srv = "listening"
    /\ \E r \in {Answer(fs, dir, method, url)},
          c \in {canonicalize(fs, RequestPath(dir, url), RequestWantsDir(url))} :
           /\ last' = [method |-> method, url |-> url, resp |-> r, canon |-> c,
                       as_get |-> Respond(fs, dir, url),
                       node |-> IF c.ok THEN NodeAt(fs, c.path) ELSE NoNode,
                       as_index |-> Respond(fs, dir, <<"/", "index.html">>)]
           /\ accepted' = IF r.status = 200 THEN Some(url) ELSE accepted
           /\ seenEscape' = IF c.ok /\ ~starts_with(c.path, dir)
                            THEN seenEscape \cup {r} ELSE seenEscape
           /\ seenAbsent' = IF ~c.ok THEN seenAbsent \cup {r} ELSE seenAbsent
    /\ UNCHANGED <<fs, srv, dir, portArg, bindable, bound>>
    /\ UNCHANGED notServe

(* Something other than the server changes one node of the tree between   *)
(* two requests.                                                            *)
FsChange(f) ==
    /\ Cardinality({p \in Paths : f[p] # fs[p]}) = 1
    /\ fs' = f
    /\ UNCHANGED <<srv, dir, last, accepted, seenEscape, seenAbsent,
                   portArg, bindable, bound>>
    /\ UNCHANGED notServe

NextServe ==
    \/ StartServer
    \/ \E m \in Methods, u \in Requests : HandleRequest(m, u)
    \/ \E f \in FsStates : FsChange(f)

(* The most requests that arrive. *)
MaxRequests == 3

(* The requests that arrive at the loop. *)
LoopRequests == { <<"/">>, <<"/", "a.txt">>, <<"/", "missing">> }

RespondsPartial(fsys, root, method, url) ==
    LET c == canonicalize(fsys, RequestPath(root, url), RequestWantsDir(url))
    IN  IF c.ok /\ NodeAt(fsys, c.path) = FileNode("read_err")
        THEN <<[status |-> 200, body |-> <<"part of">> \o c.path,
                ctype |-> guess_content_type(c.path)]>>
        ELSE <<Answer(fsys, root, method, url)>>

(* The request.respond calls of one turn of the loop: every arm of the      *)
(* body ends in one, made when the arm has its whole response.              *)
responds(fsys, root, method, url) == <<Answer(fsys, root, method, url)>>

CanTakeAlways(c) == TRUE

(* for request in server.incoming_requests(): the next request is taken     *)
(* when the body of the loop is not working on one.                         *)
CanTake(c) == c = None

InitLoopIdle ==
    /\ incoming = <<>>
    /\ request = None
    /\ sent = <<>>
    /\ arrived = 0

InitLoop ==
    /\ fs \in {MkFs(a, "in", TRUE) : a \in {"none", "ok", "open_err", "read_err"}}
    /\ srv = "idle"
    /\ dir = <<>>
    /\ last = NoRequest
    /\ accepted = None
    /\ seenEscape = {}
    /\ seenAbsent = {}
    /\ portArg = None
    /\ bindable = SamplePorts
    /\ bound = None
    /\ InitLoopIdle

(* A client sends a request to the listening server. *)
Arrive(method, url) ==
    /\ srv = "listening"
    /\ arrived < MaxRequests
    /\ arrived' = arrived + 1
    /\ incoming' = Append(incoming, [id |-> arrived + 1, method |-> method, url |-> url])
    /\ UNCHANGED <<request, sent>>
    /\ UNCHANGED notLoop

(* The loop takes the oldest request that waits. *)
TakeRequest ==
    /\ srv = "listening"
    /\ CanTake(request)
    /\ incoming # <<>>
    /\ request' = Some(Head(incoming))
    /\ incoming' = Tail(incoming)
    /\ UNCHANGED <<sent, arrived>>
    /\ UNCHANGED notLoop

(* The body of the loop runs to its end for the request it took. *)
FinishRequest ==
    /\ request # None
    /\ LET rs == responds(fs, dir, request[1].method, request[1].url)
       IN  sent' = sent \o [k \in 1..Len(rs) |-> [id |-> request[1].id, resp |-> rs[k]]]
    /\ request' = None
    /\ UNCHANGED <<incoming, arrived>>
    /\ UNCHANGED notLoop

NextLoop ==
    \/ StartServer
    \/ \E u \in LoopRequests : Arrive("GET", u)
    \/ TakeRequest
    \/ FinishRequest

(* The command lines and the ports a start of the server can meet. *)
PortArgs == {None, Some(8001), Some(9000)}

InitBind ==
    /\ fs = MkFs("ok", "in", TRUE)
    /\ srv = "idle"
    /\ dir = <<>>
    /\ last = NoRequest
    /\ accepted = None
    /\ seenEscape = {}
    /\ seenAbsent = {}
    /\ portArg \in PortArgs
    /\ bindable \in SUBSET SamplePorts
    /\ bound = None

(* The requests sent to a server to see that it serves. *)
BindRequests == { <<"/">>, <<"/", "missing">>, <<"/", "link">> }

NextBind ==
    \/ StartServer
    \/ \E u \in BindRequests : HandleRequest("GET", u)

-----------------------------------------------------------------------------
(* The vllm parsers (src/vllm/parsers.rs) and the dispatch of a record to   *)
(* them.  A record is the Envelope's artifact and graph_dump descriptors    *)
(* (the name of each, a sequence of tokens, a recognised prefix being one   *)
(* token), its compile id and its payload.                                  *)

(* The longest log that is dispatched. *)
MaxLines == 3

ConfigName == <<"vllm_compilation_config">>

CompileStartName == <<"vllm_piecewise_compile_start">>

SplitGraphName == <<"vllm_piecewise_split_graph">>

Envelope(a, g, cid, p) == [artifact |-> a, graph_dump |-> g, compile_id |-> cid, payload |-> p]

Envelopes ==
    {Envelope(None, None, None, NotJson)}
    \cup {Envelope(Some(ConfigName), None, None, p) : p \in ConfigPayloads}
    \cup {Envelope(Some(CompileStartName), None, None, p) : p \in SubgraphPayloads}
    \cup {Envelope(Some(<<"dynamo_cpp_guards_str">>), None, None, NotJson)}
    \cup {Envelope(None, Some(g), None, NotJson) :
            g \in {SplitGraphName, <<"vllm_piecewise_split_graph", "_v2">>,
                   <<"vllm_subgraph_", "0">>, <<"vllm_submod_", "1">>,
                   <<"inductor_post_grad_graph">>}}
    \cup {Envelope(Some(a), Some(g), None, JObject(UnitObj(1, 128, 128, TRUE))) :
            a \in {ConfigName, CompileStartName},
            g \in {SplitGraphName, <<"vllm_subgraph_", "0">>}}
    \cup {Envelope(Some(ConfigName), None, Some("c0"),
                   JObject([model |-> JStr("m1"), backend |-> JStr("inductor")])),
          Envelope(None, Some(<<"vllm_subgraph_", "0">>), Some("c0"), NotJson),
          Envelope(None, Some(<<"vllm_subgraph_", "0">>), Some("c1"), NotJson),
          Envelope(None, Some(SplitGraphName), Some("c0"), NotJson)}

ArtifactMd(e) == Some([kind |-> "Artifact", name |-> e.artifact[1]])

GraphDumpMd(e) == Some([kind |-> "GraphDump", name |-> e.graph_dump[1]])

(* VllmCompilationConfigParser::get_metadata *)
VllmCompilationConfigParser_get_metadata(e) ==
    IF e.artifact # None /\ e.artifact[1] = ConfigName THEN ArtifactMd(e) ELSE None

PiecewiseCompile_get_metadata_any_vllm(e) ==
    IF e.artifact # None /\ e.artifact[1] = CompileStartName THEN ArtifactMd(e)
    ELSE IF e.graph_dump # None
            /\ \E m \in {"vllm_subgraph_", "vllm_submod_", "vllm_piecewise_split_graph"} :
                  StartsWithMarker(e.graph_dump[1], m)
    THEN GraphDumpMd(e)
    ELSE None

(* VllmPiecewiseCompileParser::get_metadata *)
VllmPiecewiseCompileParser_get_metadata(e) ==
    IF e.artifact # None /\ e.artifact[1] = CompileStartName THEN ArtifactMd(e)
    ELSE IF e.graph_dump # None
            /\ (\/ StartsWithMarker(e.graph_dump[1], "vllm_subgraph_")
                \/ StartsWithMarker(e.graph_dump[1], "vllm_submod_"))
    THEN GraphDumpMd(e)
    ELSE None

(* VllmPiecewiseSplitGraphParser::get_metadata *)
VllmPiecewiseSplitGraphParser_get_metadata(e) ==
    IF e.graph_dump # None /\ e.graph_dump[1] = SplitGraphName THEN GraphDumpMd(e) ELSE None

(* build_file_path(filename, lineno, compile_id), of crate::parsers: the    *)
(* file name is told apart by the compile id or, without one, by the line   *)
(* number.                                                                  *)
build_file_path(stem, ext, lineno, cid) ==
    OutFile(".", stem \o (IF cid # None THEN <<"_", cid[1]>> ELSE <<"_">> \o to_string(lineno)),
            ext)

PayloadFile(f) == [kind |-> "PayloadFile", file |-> f]

PayloadReformatFile(f) == [kind |-> "PayloadReformatFile", file |-> f]

(* The VllmState the parsers share. *)
ParserState ==
    [config                 |-> config,
     piecewise_graph_file   |-> piecewise_graph_file,
     subgraphs              |-> subgraphs,
     pre_subgraph_artifacts |-> pre_subgraph_artifacts,
     has_vllm_artifacts     |-> has_vllm_artifacts]

ConfigParser_parse_flagging(st, lineno, cid, payload) ==
    [ok  |-> TRUE,
     st  |-> IF DecodeConfigOk(payload)
             THEN [st EXCEPT !.config = StoreConfig(@, DecodeConfig(payload)),
                             !.has_vllm_artifacts = TRUE]
             ELSE [st EXCEPT !.has_vllm_artifacts = TRUE],
     out |-> <<PayloadReformatFile(build_file_path(ConfigName, "json", lineno, cid))>>]

(* VllmCompilationConfigParser::parse *)
VllmCompilationConfigParser_parse(st, lineno, cid, payload) ==
    [ok  |-> TRUE,
     st  |-> IF DecodeConfigOk(payload)
             THEN [st EXCEPT !.config = StoreConfig(@, DecodeConfig(payload)),
                             !.has_vllm_artifacts = TRUE]
             ELSE st,
     out |-> <<PayloadReformatFile(build_file_path(ConfigName, "json", lineno, cid))>>]

PiecewiseCompile_parse_no_lineno(st, lineno, md, cid, payload) ==
    LET seen == [st EXCEPT !.has_vllm_artifacts = TRUE]
    IN  IF md.kind = "Artifact"
        THEN [ok  |-> TRUE,
              st  |-> IF DecodeSubgraphOk(payload)
                      THEN [seen EXCEPT !.subgraphs = PushUnit(@, DecodeSubgraph(payload))]
                      ELSE seen,
              out |-> <<>>]
        ELSE [ok  |-> TRUE,
              st  |-> seen,
              out |-> <<PayloadFile(build_file_path(md.name, "txt", 0, cid))>>]

(* VllmPiecewiseCompileParser::parse *)
VllmPiecewiseCompileParser_parse(st, lineno, md, cid, payload) ==
    LET seen == [st EXCEPT !.has_vllm_artifacts = TRUE]
    IN  IF md.kind = "Artifact"
        THEN [ok  |-> TRUE,
              st  |-> IF DecodeSubgraphOk(payload)
                      THEN [seen EXCEPT !.subgraphs = PushUnit(@, DecodeSubgraph(payload))]
                      ELSE seen,
              out |-> <<>>]
        ELSE [ok  |-> TRUE,
              st  |-> seen,
              out |-> <<PayloadFile(build_file_path(md.name, "txt", lineno, cid))>>]

(* VllmPiecewiseSplitGraphParser::parse *)
VllmPiecewiseSplitGraphParser_parse(st, lineno, cid) ==
    [ok  |-> TRUE,
     st  |-> [st EXCEPT !.has_vllm_artifacts = TRUE],
     out |-> <<PayloadFile(build_file_path(SplitGraphName, "txt", lineno, cid))>>]

RegistryCompileFirst ==
    <<"vllm_piecewise_compile", "vllm_compilation_config", "vllm_piecewise_split_graph">>

(* vllm_parsers_with_state: the parsers, by name, in registration order. *)
vllm_parsers_with_state ==
    <<"vllm_compilation_config", "vllm_piecewise_split_graph", "vllm_piecewise_compile">>

(* StructuredLogParser::get_metadata and ::parse of the parser named q. *)
get_metadata(q, e) ==
    CASE q = "vllm_compilation_config"    -> VllmCompilationConfigParser_get_metadata(e)
      [] q = "vllm_piecewise_split_graph" -> VllmPiecewiseSplitGraphParser_get_metadata(e)
      [] q = "vllm_piecewise_compile"     -> VllmPiecewiseCompileParser_get_metadata(e)

parse(q, st, lineno, md, cid, payload) ==
    CASE q = "vllm_compilation_config" ->
             VllmCompilationConfigParser_parse(st, lineno, cid, payload)
      [] q = "vllm_piecewise_split_graph" ->
             VllmPiecewiseSplitGraphParser_parse(st, lineno, cid)
      [] q = "vllm_piecewise_compile" ->
             VllmPiecewiseCompileParser_parse(st, lineno, md, cid, payload)

(* The parsers that identify the record, in registration order. *)
Identifying(registry, e) == SelectSeq(registry, LAMBDA q : get_metadata(q, e) # None)

(* Exclusive dispatch: only the first parser that identifies the record is  *)
(* invoked.                                                                 *)
Selected(registry, e) ==
    IF Identifying(registry, e) = <<>> THEN <<>> ELSE <<Head(Identifying(registry, e))>>

(* The files of the parser's output that are written: a payload file as it  *)
(* is, a reformatted one when the payload is JSON.                          *)
Written(out, payload) ==
    LET w == SelectSeq(out, LAMBDA o : o.kind = "PayloadFile" \/ payload.json)
    IN  [i \in 1..Len(w) |-> w[i].file]

NoRecord == Envelope(None, None, None, [json |-> FALSE, obj |-> <<"none">>])

InitDispatchIdle ==
    /\ record = NoRecord
    /\ invoked = <<>>
    /\ prevState = <<>>
    /\ emitted = <<>>

(* One record of the log is dispatched: the selected parser's parse runs on *)
(* the state, and the file it emits, if any, is written and handed to       *)
(* add_artifact.                                                            *)
Dispatch(e) ==
    /\ nrecords < MaxLines
    /\ nrecords' = nrecords + 1
    /\ LET lineno == nrecords + 1
           sel    == Selected(vllm_parsers_with_state, e)
           r      == IF sel = <<>>
                     THEN [ok |-> TRUE, st |-> ParserState, out |-> <<>>]
                     ELSE parse(sel[1], ParserState, lineno, get_metadata(sel[1], e)[1],
                                e.compile_id, e.payload)
           files  == Written(r.out, e.payload)
       IN  /\ record' = e
           /\ invoked' = sel
           /\ prevState' = runState
           /\ config' = r.st.config
           /\ has_vllm_artifacts' = r.st.has_vllm_artifacts
           /\ cfgHistory' = IF sel = <<"vllm_compilation_config">> /\ DecodeConfigOk(e.payload)
                            THEN Append(cfgHistory, e.payload) ELSE cfgHistory
           /\ pushed' = IF Len(r.st.subgraphs) > Len(subgraphs)
                        THEN Append(pushed, e.payload) ELSE pushed
           /\ emitted' = emitted \o [i \in 1..Len(files) |->
                                        [file |-> files[i], lineno |-> lineno, of |-> e]]
           /\ IF files = <<>>
              THEN /\ piecewise_graph_file' = r.st.piecewise_graph_file
                   /\ subgraphs' = r.st.subgraphs
                   /\ pre_subgraph_artifacts' = r.st.pre_subgraph_artifacts
                   /\ UNCHANGED adds
              ELSE LET art == MkArtifact(files[1], "")
                       a   == Attach(r.st.subgraphs, r.st.pre_subgraph_artifacts, art)
                   IN  /\ piecewise_graph_file' =
                              TrackSplitGraph(r.st.piecewise_graph_file, art)
                       /\ subgraphs' = a.units
                       /\ pre_subgraph_artifacts' = a.bucket
                       /\ adds' = Append(adds, [art |-> art, at |-> Len(r.st.subgraphs)])
    /\ lastOp' = "Dispatch"
    /\ buildCalls' = 0
    /\ UNCHANGED lastGroups
    /\ UNCHANGED notDispatch

NextDispatch == \E e \in Envelopes : Dispatch(e)

(* The orchestration before it is given anything to do. *)
InitRanksIdle ==
    /\ dirEntries = {}
    /\ inputIsDir = FALSE
    /\ overwrite = FALSE
    /\ disk = [root |-> FALSE, stale |-> FALSE, sub |-> NoSubdirs, landing |-> FALSE]
    /\ pc = "start"
    /\ err = "none"
    /\ listing = <<>>
    /\ rank_logs = <<>>
    /\ sorted_ranks = <<>>
    /\ todo = <<>>
    /\ attempts = <<>>

-----------------------------------------------------------------------------
(* The specifications.                                                      *)

vars == <<vllmVars, rankVars, srvVars, dispVars, reportVars, loopVars>>

InitVllmSpec ==
    InitVllm /\ InitRanksIdle /\ InitServeIdle /\ InitDispatchIdle /\ InitReportIdle
    /\ InitLoopIdle

SpecVllm == InitVllmSpec /\ [][NextVllm]_vars

InitRanksSpec ==
    InitRanks /\ InitVllm /\ InitServeIdle /\ InitDispatchIdle /\ InitReportIdle
    /\ InitLoopIdle

SpecRanks == InitRanksSpec /\ [][NextRanks]_vars

InitServeSpec ==
    InitServe /\ InitVllm /\ InitRanksIdle /\ InitDispatchIdle /\ InitReportIdle
    /\ InitLoopIdle

SpecServe == InitServeSpec /\ [][NextServe]_vars

InitDispatchSpec ==
    InitDispatchIdle /\ InitVllm /\ InitRanksIdle /\ InitServeIdle /\ InitReportIdle
    /\ InitLoopIdle

SpecDispatch == InitDispatchSpec /\ [][NextDispatch]_vars

InitReportSpec ==
    InitReportIdle /\ InitVllm /\ InitRanksIdle /\ InitServeIdle /\ InitDispatchIdle
    /\ InitLoopIdle

SpecReport == InitReportSpec /\ [][NextReport]_vars

InitBindSpec ==
    InitBind /\ InitVllm /\ InitRanksIdle /\ InitDispatchIdle /\ InitReportIdle
    /\ InitLoopIdle

SpecBind == InitBindSpec /\ [][NextBind]_vars

InitLoopSpec ==
    InitLoop /\ InitVllm /\ InitRanksIdle /\ InitDispatchIdle /\ InitReportIdle

SpecLoop == InitLoopSpec /\ [][NextLoop]_vars

-----------------------------------------------------------------------------
-----------------------------------------------------------------------------
(* Properties of the accumulator, checked under SpecVllm.                   *)

(* The artifacts added while k units existed, in the order they were added. *)
ArtsAddedAt(k) ==
    LET sel == SelectSeq(adds, LAMBDA a : a.at = k)
    IN  [i \in 1..Len(sel) |-> sel[i].art]

(* The artifact list of unit k, the pre-subgraph bucket for k = 0. *)
ListAt(k) == IF k = 0 THEN pre_subgraph_artifacts ELSE subgraphs[k].artifacts

(* C3: every artifact sits in exactly one list, the one of the unit that    *)
(* was last when it was added (the pre-subgraph bucket when there was       *)
(* none): the list of unit k holds exactly the artifacts added while k      *)
(* units existed, in order, so a new unit starts empty, no other list       *)
(* changes on an add and nothing is moved afterwards.                       *)
C3_AttachAtAddTime ==
    /\ \A i \in 1..Len(adds) : adds[i].at <= Len(subgraphs)
    /\ \A k \in 0..Len(subgraphs) : ListAt(k) = ArtsAddedAt(k)

(* PushUnit(S0); AddArtifact(A1); PushUnit(S1); AddArtifact(A2) has run. *)
C3_Witness ==
    /\ Len(subgraphs) = 2
    /\ Len(adds) = 2
    /\ adds[1].art # adds[2].art
    /\ subgraphs[1].artifacts = <<adds[1].art>>
    /\ subgraphs[2].artifacts = <<adds[2].art>>
    /\ pre_subgraph_artifacts = <<>>

(* C4: the unit list is the sequence of the decoded compile-start records   *)
(* in arrival order, whatever their index and range.                        *)
C4_UnitsInArrivalOrder ==
    /\ Len(subgraphs) = Len(pushed)
    /\ \A i \in 1..Len(subgraphs) :
          /\ subgraphs[i].index = pushed[i].obj["piecewise_index"].v
          /\ subgraphs[i].compile_range_start = pushed[i].obj["compile_range_start"].v
          /\ subgraphs[i].compile_range_end = pushed[i].obj["compile_range_end"].v
          /\ subgraphs[i].is_single_size = pushed[i].obj["is_single_size"].v

(* Units that arrived against their index order, then artifacts, a config   *)
(* and a build_compile_range_groups call.                                   *)
C4_Witness ==
    /\ Len(subgraphs) >= 2
    /\ subgraphs[1].index > subgraphs[2].index
    /\ subgraphs[1].compile_range_start > subgraphs[2].compile_range_start
    /\ Len(subgraphs[2].artifacts) >= 1
    /\ lastOp = "BuildGroups"

(* has_config of generate_vllm_summary: state.config.borrow().is_some(). *)
has_config == config # None

(* C5: after a config was set, the current config is the last one set,      *)
(* field by field, with None for every field the last payload leaves out;   *)
(* has_config and has_vllm_artifacts are true.                              *)
C5_ConfigOverwrite ==
    cfgHistory # <<>> =>
        LET p == cfgHistory[Len(cfgHistory)]
        IN  /\ has_config
            /\ Len(config) = 1
            /\ \A f \in CfgFields :
                  config[1][f] = IF HasKey(p, f) /\ p.obj[f].t # "null"
                                 THEN Some(p.obj[f].v) ELSE None
            /\ has_vllm_artifacts

(* Two configs were set, the second without a field the first one had, and  *)
(* another operation ran in between.                                        *)
C5_Witness ==
    /\ Len(cfgHistory) = 2
    /\ \E f \in CfgFields : HasKey(cfgHistory[1], f) /\ ~HasKey(cfgHistory[2], f)
    /\ Len(subgraphs) >= 1
    /\ lastOp = "ParseConfig"

(* C6: build_compile_range_groups changes nothing of the VllmState, and a   *)
(* second call right after a first returns what the first returned.         *)
C6_BuildGroupsPure ==
    [][lastOp' = "BuildGroups" =>
          /\ runState' = runState
          /\ lastOp = "BuildGroups" => lastGroups' = lastGroups]_vars

(* Two calls in a row on a state with units, artifacts and more than one group. *)
C6_Witness ==
    /\ buildCalls = 2
    /\ Len(lastGroups) >= 2
    /\ \E i \in 1..Len(subgraphs) : Len(subgraphs[i].artifacts) >= 1

(* The display key of a unit. *)
DisplayKey(u) ==
    IF u.is_single_size THEN <<"size", u.compile_range_start>>
    ELSE <<"range", u.compile_range_start, u.compile_range_end>>

(* The units with key k, in insertion order. *)
UnitsWithKey(units, k) == SelectSeq(units, LAMBDA u : DisplayKey(u) = k)

(* The position of the first unit with key k. *)
FirstSeen(units, k) ==
    CHOOSE i \in 1..Len(units) :
        /\ DisplayKey(units[i]) = k
        /\ \A j \in 1..(i - 1) : DisplayKey(units[j]) # k

RECURSIVE SumCounts(_)
SumCounts(g) == IF g = <<>> THEN 0 ELSE Head(g).submod_count + SumCounts(Tail(g))

GroupsPartition(units, g) ==
    \* every unit's key has a group, and every group's key is some unit's
    /\ \A n \in 1..Len(units) : \E i \in 1..Len(g) : g[i].size_or_range = DisplayKey(units[n])
    /\ \A i \in 1..Len(g) : \E n \in 1..Len(units) : g[i].size_or_range = DisplayKey(units[n])
    \* one group per key, in first-seen order
    /\ \A i, j \in 1..Len(g) :
          i < j => /\ g[i].size_or_range # g[j].size_or_range
                   /\ FirstSeen(units, g[i].size_or_range) < FirstSeen(units, g[j].size_or_range)
    \* a group's members are the units with its key, in insertion order
    /\ \A i \in 1..Len(g) :
          LET us == UnitsWithKey(units, g[i].size_or_range)
          IN  /\ Len(g[i].submods) = Len(us)
              /\ g[i].submod_count = Len(us)
              /\ \A m \in 1..Len(us) :
                    /\ g[i].submods[m].artifacts = us[m].artifacts
                    /\ g[i].submods[m].artifact_count = Len(us[m].artifacts)
                    /\ g[i].submods[m].submod_name.text =
                          IF us[m].submod_name # None THEN us[m].submod_name[1]
                          ELSE "subgraph_"
                    /\ us[m].submod_name = None =>
                          g[i].submods[m].submod_name.num = <<us[m].index>>
    \* every unit is in exactly one group
    /\ SumCounts(g) = Len(units)

(* C7: what build_compile_range_groups returned partitions the units by     *)
(* display key: one group per key in first-seen order, the members of a     *)
(* group in insertion order, with the true member and artifact counts.      *)
C7_GroupsPartitionUnits ==
    lastOp = "BuildGroups" => GroupsPartition(subgraphs, lastGroups)

(* Units with keys "size 128", "range [0, 64]", "size 128" were grouped:    *)
(* the first and the third share the first group.                           *)
C7_Witness ==
    /\ lastOp = "BuildGroups"
    /\ Len(subgraphs) = 3
    /\ DisplayKey(subgraphs[1]) = <<"size", 128>>
    /\ DisplayKey(subgraphs[2]) = <<"range", 0, 64>>
    /\ DisplayKey(subgraphs[3]) = <<"size", 128>>
    /\ Len(lastGroups) = 2
    /\ lastGroups[1].submod_count = 2
    /\ \E i \in 1..3 : Len(subgraphs[i].artifacts) >= 1

-----------------------------------------------------------------------------
(* Properties of the multi-rank orchestration, checked under SpecRanks.     *)

(* Discovery ran: handle_all_ranks got past read_dir. *)
Discovered == pc \in {"processing", "done"} \/ (pc = "failed" /\ err \notin {"not_dir", "out_exists"})

(* The processing of a rank failed. *)
RankFailed == pc = "failed" /\ err \in {"rank_exists", "parse_err", "write_err"}

RECURSIVE NatOfDigits(_)
NatOfDigits(ds) ==
    IF ds = <<>> THEN 0
    ELSE 10 * NatOfDigits(SubSeq(ds, 1, Len(ds) - 1)) + DigitValue(ds[Len(ds)])

(* The rank tokens: digits, with an optional sign, that u32 can hold. *)
IsRankToken(tok) ==
    LET ds == IF tok # <<>> /\ tok[1] = "+" THEN Tail(tok) ELSE tok
    IN  ds # <<>> /\ (\A i \in 1..Len(ds) : ds[i] \in Digits) /\ FitsU32(ds)

RankOfToken(tok) == NatOfDigits(IF tok[1] = "+" THEN Tail(tok) ELSE tok)

(* The ways to read a name as prefix, rank token, anything, suffix: the     *)
(* lengths k of the token, which ends at the end of the stem or at a '_'.   *)
TokenLengths(name) ==
    {k \in 1..(Len(name) - 2) :
        /\ name[1] = Prefix
        /\ name[Len(name)] = Suffix
        /\ \A i \in 2..(k + 1) : name[i] # "_"
        /\ (k + 2 = Len(name) \/ name[k + 2] = "_")
        /\ IsRankToken(SubSeq(name, 2, k + 1))}

Qualifies(e) == e.is_file /\ TokenLengths(e.name) # {}

RankOfName(name) ==
    RankOfToken(SubSeq(name, 2, 1 + CHOOSE k \in TokenLengths(name) : TRUE))

Qualifying == {e \in dirEntries : Qualifies(e)}

CountRank(r) == Cardinality({i \in 1..Len(rank_logs) : rank_logs[i].rank = r})

CountLabel(r) ==
    Cardinality({i \in 1..Len(sorted_ranks) : NatOfDigits(sorted_ranks[i]) = r})

(* C8: discovery yields the qualifying files with their ranks and nothing   *)
(* else, fails only when none qualifies, and the rank labels are the ranks  *)
(* in ascending numeric order, in plain decimal, whatever order the         *)
(* directory was listed in.                                                 *)
C8_DiscoveryAndLabels ==
    Discovered =>
        /\ Len(rank_logs) = Cardinality(Qualifying)
        /\ {rank_logs[i] : i \in 1..Len(rank_logs)} =
              {[path |-> e.name, rank |-> RankOfName(e.name)] : e \in Qualifying}
        /\ (err = "no_logs") = (Qualifying = {})
        /\ Qualifying # {} =>
              /\ Len(sorted_ranks) = Len(rank_logs)
              /\ \A i, j \in 1..Len(sorted_ranks) :
                    i < j => NatOfDigits(sorted_ranks[i]) <= NatOfDigits(sorted_ranks[j])
              /\ \A i \in 1..Len(rank_logs) :
                    CountLabel(rank_logs[i].rank) = CountRank(rank_logs[i].rank)
              /\ \A i \in 1..Len(sorted_ranks) :
                    /\ \A k \in 1..Len(sorted_ranks[i]) : sorted_ranks[i][k] \in Digits
                    /\ Len(sorted_ranks[i]) > 1 => sorted_ranks[i][1] # "0"

(* The directory held ranks 10 and 2 and a file that is no rank log, and    *)
(* listed 10 before 2: the labels are 2, 10.                                *)
C8_Witness ==
    /\ Discovered
    /\ Len(rank_logs) = 2
    /\ rank_logs[1].rank = 10
    /\ rank_logs[2].rank = 2
    /\ Cardinality(dirEntries) = 3
    /\ sorted_ranks = << <<"2">>, <<"1", "0">> >>

HasOutput(rank) == DirExists(disk, Subdir(rank)) /\ DirOf(disk, Subdir(rank)).state = "full"

(* The qualifying entries in the order the directory was listed in. *)
QualifyingListing == SelectSeq(listing, Qualifies)

LastWriter(i, n) ==
    CHOOSE j \in 1..(n - 1) :
        /\ attempts[j].rank = attempts[i].rank
        /\ \A l \in (j + 1)..(n - 1) : attempts[l].rank # attempts[i].rank

(* The subdirectory written for attempt i is as the attempts before n left it. *)
Untouched(i, n) ==
    /\ DirExists(disk, Subdir(attempts[i].rank))
    /\ DirOf(disk, Subdir(attempts[i].rank)).state = "full"
    /\ DirOf(disk, Subdir(attempts[i].rank)).of = attempts[LastWriter(i, n)].path

(* Fail-fast: a failed attempt is the last one, the operation fails and     *)
(* there is no landing page; a landing page means every discovered rank     *)
(* has its output.                                                          *)
FailFast ==
    /\ \A i \in 1..Len(attempts) : ~attempts[i].ok => (i = Len(attempts) /\ RankFailed)
    /\ RankFailed =>
          /\ attempts # <<>>
          /\ ~attempts[Len(attempts)].ok
          /\ Len(attempts) + Len(todo) - 1 = Len(rank_logs)
          /\ ~disk.landing
    /\ disk.landing =>
          /\ todo = <<>>
          /\ Len(attempts) = Len(rank_logs)
          /\ \A i \in 1..Len(rank_logs) : HasOutput(rank_logs[i].rank)

(* C10 as stated: fail-fast, and when a rank fails the subdirectory of      *)
(* every log processed before it is on disk as it was.                      *)
C10_NoRollbackAnyLog ==
    /\ FailFast
    /\ RankFailed => \A i \in 1..(Len(attempts) - 1) : Untouched(i, Len(attempts))

(* What holds of the subdirectories of the other ranks: fail-fast, and when *)
(* a rank fails the subdirectory of every earlier-processed rank other than *)
(* the failing one is on disk as it was (a failing log that repeats the     *)
(* rank number of an earlier log shares its subdirectory).                  *)
C10_NoRollbackOtherRanks ==
    /\ FailFast
    /\ RankFailed =>
          \A i \in 1..(Len(attempts) - 1) :
              attempts[i].rank # attempts[Len(attempts)].rank => Untouched(i, Len(attempts))

(* Two ranks were processed, the third failed half-written: the first two   *)
(* are on disk and there is no landing page.                                *)
C10_Witness ==
    /\ RankFailed
    /\ err = "write_err"
    /\ Len(attempts) = 3
    /\ attempts[1].rank # attempts[3].rank
    /\ attempts[2].rank # attempts[3].rank
    /\ Untouched(1, 3)
    /\ Untouched(2, 3)
    /\ DirOf(disk, Subdir(attempts[3].rank)).state = "partial"
    /\ ~disk.landing

(* The multi-rank operation failed in discovery. *)
DiscoveryFailed == pc = "failed" /\ err \in {"not_dir", "no_logs"}

(* C11 as stated: when the multi-rank operation fails because the input is  *)
(* no directory or holds no rank log, the output root is as the run found   *)
(* it (not created, not emptied, not modified), no rank was processed and   *)
(* there is no landing page.                                                *)
C11_DiscoveryFailureWritesNothing ==
    DiscoveryFailed =>
        /\ disk \in InitialDisks
        /\ attempts = <<>>
        /\ ~disk.landing

(* What holds: a discovery failure processes no rank and writes no landing  *)
(* page, and the root is untouched when the input is no directory.          *)
DiscoveryFailureProcessesNothing ==
    DiscoveryFailed =>
        /\ attempts = <<>>
        /\ disk.sub = NoSubdirs
        /\ ~disk.landing
        /\ err = "not_dir" => disk \in InitialDisks

(* No rank log was found among the entries, and the root is there, empty. *)
C11_Witness ==
    /\ DiscoveryFailed
    /\ err = "no_logs"
    /\ overwrite
    /\ dirEntries # {}
    /\ disk = EmptyRoot

(* C12 as stated: no two discovered logs map to the same subdirectory, the  *)
(* output written for a log stays as that log's processing left it while    *)
(* the other logs are processed, and no log fails because of the output of  *)
(* another log.                                                             *)
C12_IsolatedSubdirs ==
    Discovered =>
        /\ \A i, j \in 1..Len(rank_logs) :
               i # j => Subdir(rank_logs[i].rank) # Subdir(rank_logs[j].rank)
        /\ \A i \in 1..Len(attempts) :
               attempts[i].ok =>
                   /\ DirExists(disk, Subdir(attempts[i].rank))
                   /\ DirOf(disk, Subdir(attempts[i].rank)).of = attempts[i].path
                   /\ DirOf(disk, Subdir(attempts[i].rank)).state = "full"
        /\ err # "rank_exists"

(* What holds: logs with different rank numbers have different              *)
(* subdirectories, and the output of a log is touched only by logs that     *)
(* carry its rank number.                                                   *)
SubdirsIsolatedByRank ==
    Discovered =>
        /\ \A i, j \in 1..Len(rank_logs) :
               rank_logs[i].rank # rank_logs[j].rank
                   => Subdir(rank_logs[i].rank) # Subdir(rank_logs[j].rank)
        /\ \A i \in 1..Len(attempts) :
               (attempts[i].ok /\ \A j \in (i + 1)..Len(attempts) :
                                      attempts[j].rank # attempts[i].rank) =>
                   /\ DirExists(disk, Subdir(attempts[i].rank))
                   /\ DirOf(disk, Subdir(attempts[i].rank)).of = attempts[i].path
                   /\ DirOf(disk, Subdir(attempts[i].rank)).state = "full"

(* The logs with rank tokens 1 and 01 were both processed without error:    *)
(* the one subdirectory rank_1 holds the output of the second only.         *)
C12_Witness ==
    /\ pc = "done"
    /\ Len(attempts) = 2
    /\ attempts[1].ok /\ attempts[2].ok
    /\ attempts[1].rank = attempts[2].rank
    /\ attempts[1].path # attempts[2].path
    /\ Len(disk.sub) = 1
    /\ DirOf(disk, Subdir(attempts[1].rank)).of = attempts[2].path

(* The step before which the output root exists and overwrite is off: it    *)
(* fails the run and leaves the tree as it is.                              *)
RootKept ==
    pc = "start" /\ disk.root /\ ~overwrite =>
        pc' = "failed" /\ disk' = disk /\ attempts' = <<>>

(* The turn of the loop before which the subdirectory of the next log       *)
(* exists and overwrite is off: it fails the run and leaves the tree as it  *)
(* is.                                                                      *)
SubdirKept ==
    /\ pc = "processing"
    /\ todo # <<>>
    /\ DirExists(disk, Subdir(Head(todo).rank))
    /\ ~overwrite
    => /\ pc' = "failed"
       /\ disk' = disk
       /\ ~attempts'[Len(attempts')].ok

(* With overwrite on, the root after the setup holds nothing of an earlier  *)
(* run, and the subdirectory of a log after its turn nothing of another log.*)
EmptiedFirst ==
    /\ pc = "start" /\ pc' = "processing" => ~disk'.stale
    /\ pc = "processing" /\ todo # <<>> /\ overwrite /\ attempts' # attempts =>
           /\ DirExists(disk', Subdir(Head(todo).rank))
           /\ DirOf(disk', Subdir(Head(todo).rank)).of = Head(todo).path
           /\ DirOf(disk', Subdir(Head(todo).rank)).state
                  = CASE attempts'[Len(attempts')].ok -> "full"
                      [] pc' = "failed" /\ err' = "write_err" -> "partial"
                      [] OTHER -> "empty"

(* C26 as stated: a step that finds the output root or the subdirectory of  *)
(* the next log on disk with overwrite off fails the run with no log parsed *)
(* so far and the tree unchanged; with overwrite on, a directory is emptied *)
(* before the run writes into it.                                           *)
C26_NoLogParsedOnRefusal ==
    [][ /\ RootKept
        /\ SubdirKept
        /\ (pc = "processing" /\ todo # <<>> /\ ~overwrite
               /\ DirExists(disk, Subdir(Head(todo).rank))) => attempts = <<>>
        /\ EmptiedFirst ]_vars

(* What holds of every call of setup_output_directory: on a directory that  *)
(* exists with overwrite off it fails before the log of that call is parsed *)
(* and leaves the tree as it is; with overwrite on the directory is emptied *)
(* before the output of that call is written.                               *)
C26_RefusalPerCall ==
    [][RootKept /\ SubdirKept /\ EmptiedFirst]_vars

(* Two logs of one rank number, overwrite off: the first was parsed and     *)
(* written, the second was refused, and the output of the first is intact.  *)
C26_Witness ==
    /\ pc = "failed"
    /\ err = "rank_exists"
    /\ ~overwrite
    /\ Len(attempts) = 2
    /\ attempts[1].ok
    /\ ~attempts[2].ok
    /\ DirOf(disk, Subdir(attempts[2].rank)).of = attempts[1].path
    /\ DirOf(disk, Subdir(attempts[2].rank)).state = "full"

-----------------------------------------------------------------------------
(* The file server.                                                         *)

NotFound == TextResponse(404, "404 Not Found")

Handled == srv = "listening" /\ last # NoRequest

(* The path of the request handled last resolved, when it was handled, to   *)
(* something outside the served root.                                       *)
Escaped == last.canon.ok /\ ~starts_with(last.canon.path, dir)

(* C1: a 200 is sent only for a request whose path, canonicalized for that  *)
(* very request, is below the canonical root; a request whose path          *)
(* canonicalizes outside the root is answered 404, whatever is there and    *)
(* whatever the same url was answered before.                               *)
C1_FreshSandboxCheck ==
    Handled =>
        /\ last.resp.status = 200 =>
               last.canon.ok /\ starts_with(last.canon.path, dir)
        /\ Escaped => last.resp.status = 404

(* The url answered 200 before is answered 404 once its symlink points out  *)
(* of the tree, to a file that is there and readable.                       *)
C1_Witness ==
    /\ Handled
    /\ Escaped
    /\ NodeAt(fs, last.canon.path) = FileNode("ok")
    /\ accepted = Some(last.url)
    /\ last.resp.status = 404

(* C2: the responses sent to requests that resolved outside the root and    *)
(* the responses sent to requests whose path did not exist are one and the  *)
(* same response, a 404: same status, same body, same content type.         *)
C2_ViolationLooksAbsent ==
    \A r1 \in seenEscape : \A r2 \in seenAbsent \cup {NotFound} :
        r1 = r2 /\ r1.status = 404

(* A request for a path that does not exist is answered after a request    *)
(* that escaped the root was, with the file outside both there and not.     *)
C2_Witness ==
    /\ Handled
    /\ ~last.canon.ok
    /\ seenEscape # {}
    /\ seenAbsent # {}
    /\ NodeAt(fs, SecretPath).kind = "none"
    /\ accepted # None

(* C14 as stated: a request with another method than GET is never answered *)
(* 200 with the content of a file.                                          *)
C14_GetOnly ==
    Handled /\ last.method # "GET" => last.resp.status # 200

(* C14, amended: the method is not looked at; a request with any method is  *)
(* answered as a GET of the same url is at that moment (200 with the file   *)
(* content for a readable file below the root).                             *)
C14_MethodIgnored ==
    Handled =>
        /\ last.resp = last.as_get
        /\ last.resp.status \in {200, 404, 500}

(* A POST of /a.txt was answered 200 with the content of the file. *)
C14_Witness ==
    /\ Handled
    /\ last.method = "POST"
    /\ last.resp.status = 200
    /\ last.resp.body = <<"content of", "out", "a.txt">>
    /\ last.resp.ctype = "text/plain; charset=utf-8"

-----------------------------------------------------------------------------
(* The split-graph link, checked under SpecVllm.                            *)

(* The add_artifact calls whose artifact is named after the split graph. *)
SplitGraphAdds ==
    SelectSeq(adds, LAMBDA a : a.art.name[1] = "vllm_piecewise_split_graph")

(* C18: the split-graph link is the url of the artifact named after the     *)
(* split graph that was added last, None when none was added, and such an   *)
(* artifact is in the list of the unit that was the last one when it was    *)
(* added (in the pre-subgraph bucket when there was none).                  *)
C18_LinkLastWriterWins ==
    /\ piecewise_graph_file =
           IF SplitGraphAdds = <<>> THEN None
           ELSE Some(SplitGraphAdds[Len(SplitGraphAdds)].art.url)
    /\ \A i \in 1..Len(SplitGraphAdds) :
           \E j \in 1..Len(ListAt(SplitGraphAdds[i].at)) :
               ListAt(SplitGraphAdds[i].at)[j] = SplitGraphAdds[i].art

(* Two split-graph files were added, the second to a unit, then another     *)
(* file: the link is the url of the second.                                 *)
C18_Witness ==
    /\ Len(adds) = 3
    /\ Len(SplitGraphAdds) = 2
    /\ SplitGraphAdds[1].art.url # SplitGraphAdds[2].art.url
    /\ adds[3].art.name[1] # "vllm_piecewise_split_graph"
    /\ SplitGraphAdds[1].at = 0
    /\ SplitGraphAdds[2].at = 1
    /\ piecewise_graph_file = Some(SplitGraphAdds[2].art.url)
    /\ subgraphs[1].artifacts[1] = SplitGraphAdds[2].art

(* The request handled last resolved, when it was handled, to a regular     *)
(* file below the served root.                                              *)
ResolvedToFile ==
    /\ Handled
    /\ last.canon.ok
    /\ starts_with(last.canon.path, dir)
    /\ last.node.kind = "file"

(* The Content-Type of the extension table for the files of the tree. *)
TableType(name) ==
    CASE name \in {"index.html", "C.HTML"} -> "text/html; charset=utf-8"
      [] name = "a.txt" -> "text/plain; charset=utf-8"
      [] OTHER -> "application/octet-stream"

ServedWithTableType ==
    /\ last.resp.status = 200
    /\ last.resp.ctype = TableType(last.canon.path[Len(last.canon.path)])
    /\ last.resp.body = <<"content of">> \o last.canon.path

(* C23 as stated: a request that resolves to a regular file below the root  *)
(* is answered 200 with the Content-Type of the table when the file is      *)
(* read, and 500 when opening or reading it fails.                          *)
C23_ReadFailureIs500 ==
    ResolvedToFile =>
        /\ last.node.io = "ok" => ServedWithTableType
        /\ last.node.io \in {"open_err", "read_err"} => last.resp.status = 500

(* C23: a request that resolves to a regular file below the root is         *)
(* answered 200 with the Content-Type of the table when the file is read,   *)
(* 404 when the file cannot be opened, 500 when it is opened and reading it *)
(* fails.                                                                   *)
C23_OpenFailureIs404 ==
    ResolvedToFile =>
        /\ last.node.io = "ok" => ServedWithTableType
        /\ last.node.io = "open_err" => last.resp = NotFound
        /\ last.node.io = "read_err" =>
               last.resp = TextResponse(500, "500 Internal Server Error")

(* A file without extension was served as binary after a file that could    *)
(* be opened and not read was answered 500.                                 *)
C23_Witness ==
    /\ ResolvedToFile
    /\ last.canon.path = <<"out", "raw">>
    /\ last.resp.status = 200
    /\ last.resp.ctype = "application/octet-stream"
    /\ fs[<<"out", "a.txt">>].io = "open_err"

(* The path of the request handled last, stripped and decoded, is empty. *)
EmptyPath == urlencoding_decode(trim_start_slashes(last.url)) = <<>>

(* C24: a request whose stripped and decoded path is empty is answered as   *)
(* a request for /index.html is at that moment, and a request that resolves *)
(* below the root to something that is no regular file is answered 404.     *)
C24_EmptyPathIsIndex ==
    Handled =>
        /\ EmptyPath => last.resp = last.as_index
        /\ /\ last.canon.ok
           /\ starts_with(last.canon.path, dir)
           /\ last.node.kind # "file"
           => last.resp = NotFound

(* The request for / was answered with the index page of the root, after    *)
(* another request had been answered 200.                                   *)
C24_Witness ==
    /\ Handled
    /\ EmptyPath
    /\ last.resp = FileResponse(<<"out", "index.html">>)
    /\ last.resp.ctype = "text/html; charset=utf-8"
    /\ last.canon.path = <<"out", "index.html">>

-----------------------------------------------------------------------------
(* The request loop, checked under SpecLoop.                                *)

(* The number of responses sent to the request with number id. *)
ResponsesTo(id) == Cardinality({k \in 1..Len(sent) : sent[k].id = id})

Waiting(id) == \E k \in 1..Len(incoming) : incoming[k].id = id

InHand(id) == request # None /\ request[1].id = id

(* The regular file a.txt of the served tree, whole. *)
WholeFiles ==
    {<<"content of">> \o p : p \in {q \in Paths : fs[q] = FileNode("ok")}}

(* C22: nothing arrives, is taken or is answered before the server listens; *)
(* a request that waits or is in hand has no response, every other request  *)
(* that arrived has exactly one; the responses are sent in the order the    *)
(* requests arrived; every status is 200, 404 or 500; a 200 carries a whole *)
(* file that could be read.                                                 *)
C22_OneResponsePerRequest ==
    /\ srv # "listening" => arrived = 0 /\ request = None /\ sent = <<>>
    /\ \A id \in 1..arrived :
           ResponsesTo(id) = IF Waiting(id) \/ InHand(id) THEN 0 ELSE 1
    /\ \A k \in 1..Len(sent) :
           /\ sent[k].id = k
           /\ sent[k].resp.status \in {200, 404, 500}
           /\ sent[k].resp.status = 200 => sent[k].resp.body \in WholeFiles

(* Three requests arrived and were answered 500, 404 and 200, in the order  *)
(* they arrived.                                                            *)
C22_Witness ==
    /\ arrived = 3
    /\ incoming = <<>>
    /\ request = None
    /\ Len(sent) = 3
    /\ sent[1].resp.status = 500
    /\ sent[2].resp.status = 404
    /\ sent[3].resp.status = 200

-----------------------------------------------------------------------------
(* The start of the server, checked under SpecBind.                         *)

Started == srv \in {"listening", "failed"}

(* The bindable ports of the fixed range, 8000 to 8099. *)
BindableInRange == {p \in bindable : 8000 <= p /\ p <= 8099}

(* C25: with a port asked for the server listens on it or the start fails;  *)
(* with none it listens on the lowest bindable port of 8000..8099, and the  *)
(* start fails when there is none; a server whose start failed listens on   *)
(* no port and has handled no request.                                      *)
C25_Binding ==
    /\ Started /\ portArg # None =>
           IF portArg[1] \in bindable
           THEN srv = "listening" /\ bound = portArg
           ELSE srv = "failed"
    /\ Started /\ portArg = None =>
           IF BindableInRange # {}
           THEN /\ srv = "listening"
                /\ bound # None
                /\ bound[1] \in BindableInRange
                /\ \A p \in BindableInRange : bound[1] <= p
           ELSE srv = "failed"
    /\ srv = "failed" => bound = None /\ last = NoRequest /\ accepted = None
    /\ srv = "idle" => bound = None /\ last = NoRequest

(* No port asked for, 8000 taken and 8099 and 8100 free: the server listens *)
(* on 8099 and has answered a request.                                      *)
C25_Witness ==
    /\ srv = "listening"
    /\ portArg = None
    /\ bindable = {8099, 8100, 9000}
    /\ bound = Some(8099)
    /\ last.resp.status = 200

-----------------------------------------------------------------------------
(* Properties of the summary page, checked under SpecReport.                *)

Generated == summary # None

(* The positions of the pre-subgraph bucket whose name starts with one of   *)
(* the recognized prefixes.                                                 *)
Recognized(bucket) ==
    {i \in 1..Len(bucket) :
        bucket[i].name[1] \in {"dynamo_side_effects", "dynamo_output_graph",
                               "dynamo_cpp_guards_str", "compilation_metrics"}}

(* The k-th smallest member of a set of positions. *)
Kth(S, k) == CHOOSE i \in S : Cardinality({j \in S : j < i}) = k - 1

(* C19: the dynamo artifacts of the summary are the entries of the          *)
(* pre-subgraph bucket whose name starts with a recognized prefix, each     *)
(* once and in bucket order, and the bucket is what it was before.          *)
C19_FilteredBucket ==
    Generated =>
        LET b == summary[1].before.bucket
            r == summary[1].context.dynamo_artifacts
        IN  /\ Len(r) = Cardinality(Recognized(b))
            /\ \A k \in 1..Len(r) : r[k] = b[Kth(Recognized(b), k)]
            /\ pre_subgraph_artifacts = b

(* A bucket with a recognized entry, another entry and an entry of another *)
(* recognized prefix, in the reverse of the order of the prefixes, before   *)
(* the first unit.                                                          *)
C19_Witness ==
    /\ Generated
    /\ Len(summary[1].before.bucket) = 3
    /\ summary[1].before.bucket[1].name[1] = "compilation_metrics"
    /\ summary[1].before.bucket[2].name[1] = "vllm_piecewise_split_graph"
    /\ summary[1].before.bucket[3].name[1] = "dynamo_output_graph"
    /\ Len(summary[1].context.dynamo_artifacts) = 2
    /\ summary[1].context.dynamo_artifacts[1].name[1] = "compilation_metrics"
    /\ summary[1].context.dynamo_artifacts[2].name[1] = "dynamo_output_graph"
    /\ Len(subgraphs) = 1

(* The decisions of the gates outside the loops, and of the gate inside. *)
TopDecisions == SubSeq(summary[1].rendered, 1, Len(TopLevelGates))

UnitDecisions ==
    SubSeq(summary[1].rendered, Len(TopLevelGates) + 1, Len(summary[1].rendered))

(* The three booleans are what the claim says they are. *)
FlagsMatchSnapshot ==
    LET c == summary[1].context
    IN  /\ c.has_config <=> config # None
        /\ c.has_dynamo_artifacts <=>
               Recognized(summary[1].before.bucket) # {}
        /\ c.has_piecewise <=> piecewise_graph_file # None

(* The sections outside the loops are rendered iff their boolean is true. *)
TopSectionsFollowFlags ==
    LET c == summary[1].context
        d == TopDecisions
    IN  /\ Len(d) = 3
        /\ d[1].section = "config" /\ d[1].type = "bool"
        /\ d[1].shown = c.has_config
        /\ d[2].section = "dynamo" /\ d[2].type = "bool"
        /\ d[2].shown = c.has_dynamo_artifacts
        /\ d[3].section = "piecewise" /\ d[3].type = "bool"
        /\ d[3].shown = c.has_piecewise

(* C20 as stated: every optional section of the generated summary, a        *)
(* unit's artifact list included, is gated by a boolean of the context.     *)
C20_AllGatesPrecomputed ==
    Generated =>
        /\ FlagsMatchSnapshot
        /\ TopSectionsFollowFlags
        /\ \A k \in 1..Len(summary[1].rendered) :
               summary[1].rendered[k].type = "bool"

(* C20: has_config is true iff a config is set, has_dynamo_artifacts iff    *)
(* the filtered bucket is not empty, has_piecewise iff the link is set; the *)
(* config, dynamo and piecewise sections are rendered iff their boolean is  *)
(* true; a unit's artifact list is rendered iff the list is not empty, by a *)
(* test of the list itself.                                                 *)
C20_GatesAsRendered ==
    Generated =>
        /\ FlagsMatchSnapshot
        /\ TopSectionsFollowFlags
        /\ LET g == summary[1].context.compile_range_groups
               d == UnitDecisions
           IN  /\ Len(d) = Len(summary[1].before.units)
               /\ \A k \in 1..Len(d) :
                      /\ d[k].section = "unit_artifacts"
                      /\ d[k].type = "list"
                      /\ d[k].shown <=>
                             g[d[k].at[1]].submods[d[k].at[2]].artifacts # <<>>

(* A summary with no config and no link, a bucket whose entries are all     *)
(* unrecognized, a unit with artifacts and a unit without.                  *)
C20_Witness ==
    /\ Generated
    /\ config = None
    /\ summary[1].before.bucket # <<>>
    /\ ~summary[1].context.has_dynamo_artifacts
    /\ ~summary[1].context.has_piecewise
    /\ Len(UnitDecisions) = 2
    /\ \E k \in 1..2 : UnitDecisions[k].shown
    /\ \E k \in 1..2 : ~UnitDecisions[k].shown

(* The sections of the generated summary that have a heading. *)
Headed == {summary[1].headings[k].section : k \in 1..Len(summary[1].headings)}

(* C21: every heading of the generated summary has at least one entry      *)
(* under it, and the config, dynamo, piecewise and inductor sections are    *)
(* absent when there is no config, no recognized bucket entry, no link and  *)
(* no unit.                                                                 *)
C21_NoEmptySection ==
    Generated =>
        /\ \A k \in 1..Len(summary[1].headings) :
               summary[1].headings[k].entries >= 1
        /\ config = None => "config" \notin Headed
        /\ Recognized(summary[1].before.bucket) = {} => "dynamo" \notin Headed
        /\ piecewise_graph_file = None => "piecewise" \notin Headed
        /\ summary[1].before.units = <<>> => "inductor" \notin Headed

(* What holds of the sections that stand inside an if block, and of the     *)
(* groups.                                                                  *)
C21_GatedSectionsNotEmpty ==
    Generated =>
        /\ \A k \in 1..Len(summary[1].headings) :
               summary[1].headings[k].section # "inductor" =>
                   summary[1].headings[k].entries >= 1
        /\ config = None => "config" \notin Headed
        /\ Recognized(summary[1].before.bucket) = {} => "dynamo" \notin Headed
        /\ piecewise_graph_file = None => "piecewise" \notin Headed

(* A summary generated from a config and artifacts, without any unit: the   *)
(* only heading is that of the inductor section, with nothing under it.     *)
C21_Witness ==
    /\ Generated
    /\ config # None
    /\ summary[1].before.units = <<>>
    /\ summary[1].before.bucket # <<>>
    /\ \E k \in 1..Len(summary[1].headings) :
           /\ summary[1].headings[k].section = "inductor"
           /\ summary[1].headings[k].entries = 0

-----------------------------------------------------------------------------
(* Properties of the dispatch, checked under SpecDispatch.                  *)

Dispatched == record # NoRecord

(* The first of the config, split-graph and piecewise-compile parsers that  *)
(* identifies the record, if any.                                           *)
FirstIdentifying(e) ==
    IF VllmCompilationConfigParser_get_metadata(e) # None
    THEN <<"vllm_compilation_config">>
    ELSE IF VllmPiecewiseSplitGraphParser_get_metadata(e) # None
    THEN <<"vllm_piecewise_split_graph">>
    ELSE IF VllmPiecewiseCompileParser_get_metadata(e) # None
    THEN <<"vllm_piecewise_compile">>
    ELSE <<>>

FileName(x) == <<x.file.stem[1], x.file.ext>>

IdentifiedBy(e) == {q \in {"vllm_compilation_config", "vllm_piecewise_split_graph",
                           "vllm_piecewise_compile"} : get_metadata(q, e) # None}

(* C16 as stated: at most one of the three parsers identifies a record,     *)
(* whatever descriptors it carries.                                         *)
C16_AtMostOneIdentifies ==
    Dispatched => Cardinality(IdentifiedBy(record)) <= 1

(* C16, amended: at most one parser identifies a record by its artifact     *)
(* descriptor and at most one by its graph-dump descriptor, so at most one  *)
(* identifies a record that carries only one of the two descriptors.        *)
C16_AtMostOnePerDescriptor ==
    Dispatched =>
        /\ \A k \in {"Artifact", "GraphDump"} :
               Cardinality({q \in IdentifiedBy(record) :
                               get_metadata(q, record)[1].kind = k}) <= 1
        /\ (record.artifact = None \/ record.graph_dump = None)
               => Cardinality(IdentifiedBy(record)) <= 1
        /\ record.artifact = None /\ record.graph_dump = None => IdentifiedBy(record) = {}

(* A record with a config artifact and a split-graph dump is identified by  *)
(* two parsers, each by another descriptor.                                 *)
C16_Witness ==
    /\ Dispatched
    /\ record.artifact = Some(ConfigName)
    /\ record.graph_dump = Some(SplitGraphName)
    /\ IdentifiedBy(record) = {"vllm_compilation_config", "vllm_piecewise_split_graph"}
    /\ invoked = <<"vllm_compilation_config">>

(* The config payloads and the compile-start payloads that do not decode. *)
BadConfigPayloads == {p \in ConfigPayloads : ~DecodeConfigOk(p)}

BadSubgraphPayloads == {p \in SubgraphPayloads : ~DecodeSubgraphOk(p)}

CompileStartMd == [kind |-> "Artifact", name |-> CompileStartName]

====
